---- MODULE Spec2Model ----
(***************************************************************************)
(* Replay crawler of tls-1030: crawl_multipage of curlcffi.py (PC) and of  *)
(* curlcffi-mobile.py (mobile), with the storage rows it loads and writes. *)
(* One behaviour is one run of crawl_multipage.                            *)
(*                                                                         *)
(* A response body is a set of text chunks ("atoms") plus its length; a    *)
(* marker test ('x' in content) is a substring test against the atoms.     *)
(* File writes (save_page, save_results) are taken as total: the file      *)
(* system is an external collaborator.                                     *)
(***************************************************************************)
EXTENDS Integers, Sequences, FiniteSets, TLC

\* ---------------------------------------------------------------- bounds
MaxPagesBound == 3
MaxPrior == 2
MaxFields == 6
MaxHtmlAtoms == 1
MaxNavPages == 3
MaxAtoms == 2

\* ------------------------------------------------------ program constants
MinLenHtml == 5000
MinLenRsc == 50000
MinLenMobile == 5000
MinBlockLen == 5000
SearchAttempts == 15
ButtonFindAttempts == 3
ContentAttempts == 10

NoData == [none |-> TRUE]
NoContent == [atoms |-> {}, length |-> 0 - 1]

Variants == {"pc", "mobile"}

\* ------------------------------------------------------- response bodies
Atoms ==
  {"product-list", "search-product", "\"product", "\"Product",
   "srp_", "ERR_", "location.reload", "Search"}

AtomLen(a) ==
  CASE a = "product-list" -> 12
    [] a = "search-product" -> 14
    [] a = "\"product" -> 8
    [] a = "\"Product" -> 8
    [] a = "srp_" -> 4
    [] a = "ERR_" -> 4
    [] a = "location.reload" -> 15
    [] a = "Search" -> 6

RECURSIVE TextLen(_)
TextLen(S) ==
  IF S = {} THEN 0
  ELSE LET a == CHOOSE x \in S : TRUE IN AtomLen(a) + TextLen(S \ {a})

\* str.lower() on a chunk
Lower(a) ==
  CASE a = "\"Product" -> "\"product"
    [] a = "Search" -> "search"
    [] a = "ERR_" -> "err_"
    [] OTHER -> a

\* <<m, t>> \in Infix: marker m is a substring of text t
Infix ==
  {<<"product-list", "product-list">>,
   <<"search-product", "search-product">>,
   <<"\"product", "\"product">>,
   <<"srp_", "srp_">>,
   <<"ERR_", "ERR_">>,
   <<"location.reload", "location.reload">>,
   <<"product", "product-list">>,
   <<"product", "search-product">>,
   <<"product", "\"product">>,
   <<"search", "search-product">>,
   <<"search", "search">>}

\* marker in content
Contains(m, content) == \E a \in content.atoms : <<m, a>> \in Infix

\* marker in content.lower()
ContainsLower(m, content) == \E a \in content.atoms : <<m, Lower(a)>> \in Infix

Lengths == {0, MinLenHtml - 1, MinLenHtml, MinLenRsc - 1, MinLenRsc}

Contents ==
  {c \in [atoms : {S \in SUBSET Atoms : Cardinality(S) <= MaxAtoms},
          length : Lengths] : TextLen(c.atoms) <= c.length}

\* validate_response with the redirect marker left out of the page-1 block test
validate_response_NoReloadMarker(content, page_num) ==
  IF page_num = 1
  THEN [has_products |-> Contains("product-list", content)
                         \/ Contains("search-product", content),
        is_blocked |-> content.length < MinLenHtml
                       \/ Contains("ERR_", content)]
  ELSE [has_products |-> ContainsLower("\"product", content)
                         \/ Contains("search-product", content)
                         \/ Contains("srp_", content),
        is_blocked |-> content.length < MinLenRsc]

\* ----------------------------------------------------- validate_response
validate_response(content, page_num) ==
  IF page_num = 1
  THEN [has_products |-> Contains("product-list", content)
                         \/ Contains("search-product", content),
        is_blocked |-> content.length < MinLenHtml
                       \/ Contains("ERR_", content)
                       \/ Contains("location.reload", content)]
  ELSE [has_products |-> ContainsLower("\"product", content)
                         \/ Contains("search-product", content)
                         \/ Contains("srp_", content),
        is_blocked |-> content.length < MinLenRsc]

mobile_validate_response(content, page_num) ==
  [has_products |-> ContainsLower("product", content)
                    \/ ContainsLower("search", content),
   is_blocked |-> content.length < MinLenMobile
                  \/ Contains("ERR_", content)
                  \/ Contains("location.reload", content)]

Validate(v, content, page_num) ==
  IF v = "pc" THEN validate_response(content, page_num)
  ELSE mobile_validate_response(content, page_num)

\* ------------------------------------------------------------ dictionaries
EmptyDict == [n \in {} |-> ""]

Put(d, k, v) == [n \in DOMAIN d \cup {k} |-> IF n = k THEN v ELSE d[n]]

\* jar after the Set-Cookie headers sc of a response
Update(jar, sc) ==
  [n \in DOMAIN jar \cup DOMAIN sc |-> IF n \in DOMAIN sc THEN sc[n] ELSE jar[n]]

\* dict.get(k, default)
Get(d, k, default) == IF k \in DOMAIN d THEN d[k] ELSE default

\* CookieHandler.to_dict on a list of cookie dicts
RECURSIVE to_dict(_)
to_dict(cookies) ==
  IF cookies = <<>> THEN EmptyDict
  ELSE LET n == Len(cookies)
           d == to_dict(SubSeq(cookies, 1, n - 1))
           c == cookies[n]
       IN IF c.name # "" /\ c.value # "" THEN Put(d, c.name, c.value) ELSE d

\* ---------------------------------------------------------------- storage
StoredCookies ==
  <<[name |-> "PCID", value |-> "v1"], [name |-> "x", value |-> ""]>>

PcTlsData ==
  [tls_version |-> "TLS 1.3", signature_algorithms |-> <<"ecdsa_secp256r1_sha256">>]

\* main-mobile.py stores the oracle's 'tls' section: no tls_version key
MobileTlsData == [connection_version |-> "TLS 1.2"]

\* a stored row whose ja3_text holds fewer than three comma-separated fields
TruncatedTlsData ==
  [connection_version |-> "TLS 1.2", ja3_text |-> <<"771", "4865-4866">>]

PcFingerprint(i) ==
  [id |-> i, device_name |-> <<"Chrome", "142.0.7444.60">>,
   os_version |-> "Windows 10", tls_data |-> PcTlsData]

MobileFingerprint(i) ==
  [id |-> i, device_name |-> <<"Samsung", "Galaxy", "(CHROME)">>,
   os_version |-> "android", tls_data |-> MobileTlsData]

TruncatedFingerprint(i) ==
  [id |-> i, device_name |-> <<"Samsung", "Galaxy", "(CHROME)">>,
   os_version |-> "android", tls_data |-> TruncatedTlsData]

CookieRow(fp, browser, type) ==
  [tls_fingerprint_id |-> fp.id, device_name |-> fp.device_name,
   browser |-> browser, os_version |-> fp.os_version,
   cookie_type |-> type, cookie_data |-> StoredCookies]

\* storage contents a collection run (main-pc.py, main-mobile.py) leaves
DbOptions ==
  {[tls_fingerprints |-> <<>>, cookies |-> <<>>],
   [tls_fingerprints |-> <<PcFingerprint(1)>>, cookies |-> <<>>],
   [tls_fingerprints |-> <<PcFingerprint(1)>>,
    cookies |-> <<CookieRow(PcFingerprint(1), "chrome", "browser")>>],
   [tls_fingerprints |-> <<PcFingerprint(1), PcFingerprint(2)>>,
    cookies |-> <<CookieRow(PcFingerprint(1), "chrome", "browser")>>],
   [tls_fingerprints |-> <<PcFingerprint(1), MobileFingerprint(2)>>,
    cookies |-> <<CookieRow(PcFingerprint(1), "chrome", "browser"),
                  CookieRow(MobileFingerprint(2), "chrome", "mobile")>>],
   [tls_fingerprints |-> <<PcFingerprint(1), TruncatedFingerprint(2)>>,
    cookies |-> <<CookieRow(PcFingerprint(1), "chrome", "browser"),
                  CookieRow(TruncatedFingerprint(2), "chrome", "mobile")>>]}

\* a load that falls back to the newest cookie row of any fingerprint
get_latest_fingerprint_AnyRow(fps, cks) ==
  IF fps = <<>> \/ cks = <<>> THEN NoData
  ELSE [device_name |-> fps[Len(fps)].device_name,
        tls_data |-> fps[Len(fps)].tls_data,
        cookies |-> cks[Len(cks)].cookie_data]

\* DbManager.get_latest_fingerprint: the returned dict has no
\* tls_fingerprint_id key
get_latest_fingerprint(fps, cks) ==
  IF fps = <<>> THEN NoData
  ELSE LET tls_row == fps[Len(fps)]
           rows == SelectSeq(cks, LAMBDA c : c.tls_fingerprint_id = tls_row.id)
       IN IF rows = <<>> THEN NoData
          ELSE [device_name |-> tls_row.device_name,
                tls_data |-> tls_row.tls_data,
                cookies |-> rows[Len(rows)].cookie_data]

\* get_latest_mobile_fingerprint: latest cookie row that is not a PC row,
\* joined with its fingerprint
get_latest_mobile_fingerprint(fps, cks) ==
  LET rows == SelectSeq(cks, LAMBDA c :
                  c.os_version # "Windows 10"
                  /\ \E i \in DOMAIN fps : fps[i].id = c.tls_fingerprint_id)
  IN IF rows = <<>> THEN NoData
     ELSE LET c == rows[Len(rows)]
              t == fps[CHOOSE i \in DOMAIN fps : fps[i].id = c.tls_fingerprint_id]
          IN [device_name |-> c.device_name, browser |-> c.browser,
              os_version |-> c.os_version,
              tls_fingerprint_id |-> t.id,
              tls_data |-> t.tls_data,
              cookies |-> c.cookie_data]

\* ---------------------------------------------------------- configuration
\* 'Chrome' in device_name
HasChrome(device_name) == \E i \in DOMAIN device_name : device_name[i] = "Chrome"

\* device_name.split()[1] if 'Chrome' in device_name else 'Unknown'
chrome_version_of(device_name) ==
  IF HasChrome(device_name)
  THEN IF Len(device_name) >= 2
       THEN [raised |-> FALSE, value |-> device_name[2]]
       ELSE [raised |-> TRUE, value |-> "IndexError"]
  ELSE [raised |-> FALSE, value |-> "Unknown"]

\* TlsConfig.build_extra_fp
build_extra_fp(tls_data) ==
  LET tls_version == Get(tls_data, "tls_version", "TLS 1.3")
      ver == IF tls_version = "TLS 1.3" THEN "tls_min_version" :> "TLSv1_3"
             ELSE IF tls_version = "TLS 1.2" THEN "tls_min_version" :> "TLSv1_2"
             ELSE EmptyDict
      sig_algs == Get(tls_data, "signature_algorithms", <<>>)
      sig == IF sig_algs # <<>> THEN "tls_signature_algorithms" :> sig_algs
             ELSE EmptyDict
  IN ver @@ ("tls_grease" :> TRUE) @@ ("tls_permute_extensions" :> TRUE)
     @@ sig @@ ("tls_cert_compression" :> "brotli")

\* TlsConfig.build_ja3_string: a JA3 string is the sequence of its
\* comma-separated parts
IsGrease(name) == name \in {"GREASE", "TLS_GREASE (0x0A0A)"}

curve_map ==
  ("X25519" :> "29") @@ ("x25519" :> "29") @@ ("secp256r1" :> "23")
  @@ ("prime256v1" :> "23") @@ ("secp384r1" :> "24") @@ ("secp521r1" :> "25")
  @@ ("X25519Kyber768Draft00" :> "25497")

\* '-'.join(ids)
RECURSIVE join_dash(_)
join_dash(ids) ==
  IF ids = <<>> THEN ""
  ELSE IF Len(ids) = 1 THEN ids[1]
  ELSE ids[1] \o "-" \o join_dash(Tail(ids))

RECURSIVE ja3_ids(_)
ja3_ids(items) ==
  IF items = <<>> THEN <<>>
  ELSE LET it == items[Len(items)]
           rest == ja3_ids(SubSeq(items, 1, Len(items) - 1))
           id == Get(it, "id", 0)
       IN IF id # 0 /\ ~IsGrease(Get(it, "name", ""))
          THEN Append(rest, ToString(id)) ELSE rest

RECURSIVE ja3_groups(_)
ja3_groups(groups) ==
  IF groups = <<>> THEN <<>>
  ELSE LET g == groups[Len(groups)]
           rest == ja3_groups(SubSeq(groups, 1, Len(groups) - 1))
       IN IF ~IsGrease(g) /\ g \in DOMAIN curve_map
          THEN Append(rest, curve_map[g]) ELSE rest

build_ja3_string(tls_data) ==
  LET ja3_text == Get(tls_data, "ja3_text", <<>>)
      tls_version == Get(tls_data, "tls_version", "TLS 1.3")
      ssl_ver == IF tls_version = "TLS 1.3" THEN "772" ELSE "771"
  IN IF ja3_text # <<>> THEN ja3_text
     ELSE <<ssl_ver,
            join_dash(ja3_ids(Get(tls_data, "cipher_suites", <<>>))),
            join_dash(ja3_ids(Get(tls_data, "extensions", <<>>))),
            join_dash(ja3_groups(Get(tls_data, "supported_groups", <<>>))),
            "0">>

\* the debug block of curlcffi-mobile.py: with three or more fields it reads
\* TlsConfig.UNSUPPORTED_EXTENSIONS, an attribute TlsConfig does not have
debug_print_raises(ja3_string) == ja3_string # <<>> /\ Len(ja3_string) >= 3

\* force_tls12_ja3 whose version test never matches
force_tls12_ja3_NoReplace(ja3_string) == ja3_string

\* force_tls12_ja3 without the test for five fields
force_tls12_ja3_AnyLength(ja3_string) ==
  [ja3_string EXCEPT ![1] = IF @ = "772" THEN "771" ELSE @]

\* force_tls12_ja3 (curlcffi-mobile.py)
force_tls12_ja3(ja3_string) ==
  IF Len(ja3_string) = 5
  THEN [ja3_string EXCEPT ![1] = IF @ = "772" THEN "771" ELSE @]
  ELSE ja3_string

\* keyword arguments of session.get that carry the replay configuration
request_config(v, ja3, fp) ==
  IF v = "pc" THEN "extra_fp" :> fp
  ELSE ("ja3" :> ja3) @@ ("extra_fp" :> fp)

\* ------------------------------------------------------------------- URLs
\* time.time() * 1000 at the start of a run; one tick per network call
StartMs == 2000000000

base36_chars ==
  <<"0", "1", "2", "3", "4", "5", "6", "7", "8", "9", "a", "b", "c", "d", "e",
    "f", "g", "h", "i", "j", "k", "l", "m", "n", "o", "p", "q", "r", "s", "t",
    "u", "v", "w", "x", "y", "z">>

\* utils/traceid.py generate_traceid at time timestamp_ms
RECURSIVE generate_traceid(_)
generate_traceid(timestamp_ms) ==
  IF timestamp_ms > 0
  THEN generate_traceid(timestamp_ms \div 36)
         \o base36_chars[(timestamp_ms % 36) + 1]
  ELSE ""

keyword == "usb hub"

\* urllib.parse.quote
quote(k) == IF k = "usb hub" THEN "usb%20hub" ELSE k

\* random.choices(..., k=5) of the PC pagination request
RscParams == {"k3x9q"}

\* the URL of a page for trace id t
search_url(v, kw, page, t, rsc_param) ==
  LET q == quote(kw)
  IN IF v = "pc"
     THEN [base |-> "https://www.coupang.com/np/search",
           params |->
             IF page = 1
             THEN <<<<"component", "">>, <<"q", q>>, <<"traceId", t>>,
                    <<"channel", "user">>>>
             ELSE <<<<"q", q>>, <<"traceId", t>>, <<"channel", "user">>,
                    <<"page", ToString(page)>>, <<"_rsc", rsc_param>>>>]
     ELSE [base |-> "https://m.coupang.com/nm/search",
           params |->
             IF page = 1
             THEN <<<<"q", q>>, <<"traceId", t>>>>
             ELSE <<<<"q", q>>, <<"traceId", t>>, <<"page", ToString(page)>>>>]

\* build_search_url generating a trace id on every call
build_search_url_Regenerate(v, kw, page, traceid, rsc_param, timestamp_ms) ==
  LET t == generate_traceid(timestamp_ms)
  IN [url |-> search_url(v, kw, page, t, rsc_param), traceid |-> <<t>>]

\* build_search_url of curlcffi.py and of curlcffi-mobile.py; traceid is <<>>
\* for None
build_search_url(v, kw, page, traceid, rsc_param, timestamp_ms) ==
  LET t == IF traceid = <<>> THEN generate_traceid(timestamp_ms) ELSE traceid[1]
  IN [url |-> search_url(v, kw, page, t, rsc_param), traceid |-> <<t>>]

\* values of the query parameter k of a URL
Params(url, k) ==
  {url.params[i][2] : i \in {j \in DOMAIN url.params : url.params[j][1] = k}}

\* --------------------------------------------------------------- the loop
\* Set-Cookie headers of a response: none, or a new cookie and a new value
\* of a held one
SetCookieOptions == {EmptyDict, ("sid" :> "v2") @@ ("PCID" :> "v2")}

Errors == {"Timeout", "ConnectionError"}

\* the loop staying on the same page
NextPageNum_Retry(page_num) == page_num

\* range(1, max_pages + 1): the page after page_num
NextPageNum(page_num) == page_num + 1

\* end of one iteration of the for loop without break
LoopNext(page_num, max_pages) ==
  IF page_num < max_pages THEN "loop" ELSE "finalize"

\* failed branch without the break on a blocked page
AfterFailed_NoBreak(is_blocked, page_num, max_pages) ==
  LoopNext(page_num, max_pages)

\* failed branch breaking on every failure
AfterFailed_AlwaysBreak(is_blocked, page_num, max_pages) == "finalize"

\* failed branch: "if is_blocked: break"
AfterFailed(is_blocked, page_num, max_pages) ==
  IF is_blocked THEN "finalize" ELSE LoopNext(page_num, max_pages)

\* except branch without the break
AfterException_Continue(page_num, max_pages) == LoopNext(page_num, max_pages)

\* except branch: record and break
AfterException(page_num, max_pages) == "finalize"

\* the latest result kept in place of the one before it
record_page_Overwrite(results, entry) ==
  IF results = <<>> THEN <<entry>>
  ELSE [results EXCEPT ![Len(results)] = entry]

\* page_results.append({...})
record_page(results, entry) == Append(results, entry)

\* extension of the saved artifact
page_ext(v, page_num, ok) ==
  IF v = "pc"
  THEN IF ok THEN (IF page_num = 1 THEN "html" ELSE "rsc.txt")
       ELSE (IF page_num = 1 THEN "failed.html" ELSE "failed.rsc.txt")
  ELSE IF ok THEN "mobile.html" ELSE "mobile.failed.html"

\* successful_pages and the returned flag
successful_pages(results) == SelectSeq(results, LAMBDA r : r.success)

\* returned flag true as soon as one page succeeded
crawl_result_AnySuccess(results, max_pages) == Len(successful_pages(results)) > 0

crawl_result(results, max_pages) == Len(successful_pages(results)) = max_pages

\* ------------------------------------------------------------ final save
NameOrder == <<"PCID", "sid", "x">>

final_cookies(jar) ==
  LET names == SelectSeq(NameOrder, LAMBDA n : n \in DOMAIN jar)
  IN [i \in 1..Len(names) |->
        [name |-> names[i], value |-> jar[names[i]],
         domain |-> ".coupang.com", path |-> "/", expires |-> "None",
         httpOnly |-> FALSE, secure |-> TRUE, sameSite |-> "None"]]

\* final save whose error leaves crawl_multipage as an exception
OnSaveError_Propagate(v) == "raised"

\* the except clause around the final save, and save_mobile_cookies' own
\* handler: the error is printed and the run goes on to the summary
OnSaveError(v) == "summary"

Last(s) == s[Len(s)]

\* ---------------------------------------------------------------- cookies
MaxWd == 2
MaxJs == 1

\* Python's None where the other values of the field are strings
None == "<None>"

SeqsUpTo(S, n) == UNION {[1..k -> S] : k \in 0..n}

\* CookieFormatter.format_webdriver_cookie
format_webdriver_cookie(cookie) ==
  [name |-> Get(cookie, "name", None),
   value |-> Get(cookie, "value", None),
   domain |-> Get(cookie, "domain", ".coupang.com"),
   path |-> Get(cookie, "path", "/"),
   expires |-> Get(cookie, "expiry", None),
   httpOnly |-> Get(cookie, "httpOnly", FALSE),
   secure |-> Get(cookie, "secure", FALSE),
   sameSite |-> Get(cookie, "sameSite", None)]

\* str(x)
str(x) == IF x = None THEN "None" ELSE x

\* CookieFormatter.format_nodriver_cookie: cookie.kind tells a dict from an
\* object, cookie.f holds the keys or attributes; reading a missing attribute
\* raises
format_nodriver_cookie(cookie) ==
  LET f == cookie.f
  IN IF cookie.kind = "dict"
     THEN [raised |-> FALSE,
           value |-> [name |-> Get(f, "name", None),
                      value |-> Get(f, "value", None),
                      domain |-> Get(f, "domain", None),
                      path |-> Get(f, "path", None),
                      expires |-> Get(f, "expires", None),
                      httpOnly |-> Get(f, "httpOnly", FALSE),
                      secure |-> Get(f, "secure", FALSE),
                      sameSite |-> Get(f, "sameSite", None)]]
     ELSE IF {"name", "value", "domain", "path"} \subseteq DOMAIN f
     THEN [raised |-> FALSE,
           value |-> [name |-> f.name, value |-> f.value,
                      domain |-> f.domain, path |-> f.path,
                      expires |-> Get(f, "expires", None),
                      httpOnly |-> Get(f, "http_only", FALSE),
                      secure |-> Get(f, "secure", FALSE),
                      sameSite |-> IF "same_site" \in DOMAIN f
                                   THEN str(f.same_site) ELSE None]]
     ELSE [raised |-> TRUE, value |-> "AttributeError"]

\* str.strip
strip(x) ==
  IF x = " sid" THEN "sid" ELSE IF x = "3 " THEN "3" ELSE x

\* '='.join(pieces)
RECURSIVE join_eq(_)
join_eq(pieces) ==
  IF Len(pieces) = 1 THEN pieces[1]
  ELSE pieces[1] \o "=" \o join_eq(Tail(pieces))

\* CookieFormatter.parse_js_cookies: a document.cookie string is the sequence
\* of its '; '-separated pairs, a pair the sequence of its '='-separated
\* pieces
RECURSIVE parse_js_cookies(_)
parse_js_cookies(cookie_string) ==
  IF cookie_string = <<>> THEN <<>>
  ELSE LET cookie_pair == cookie_string[Len(cookie_string)]
           rest == parse_js_cookies(
                     SubSeq(cookie_string, 1, Len(cookie_string) - 1))
       IN IF Len(cookie_pair) >= 2
          THEN Append(rest,
                 [name |-> strip(cookie_pair[1]),
                  value |-> strip(join_eq(Tail(cookie_pair))),
                  domain |-> ".coupang.com", path |-> "/", expires |-> None,
                  httpOnly |-> FALSE, secure |-> TRUE, sameSite |-> "None"])
          ELSE rest

\* the search for the existing record stopping at the last match
existing_idx_Last(merged, cookie_name) ==
  LET idxs == {i \in DOMAIN merged : merged[i].name = cookie_name}
  IN IF idxs = {} THEN 0 ELSE CHOOSE i \in idxs : \A j \in idxs : i >= j

\* index of the first record of merged named cookie_name, 0 for none
existing_idx(merged, cookie_name) ==
  LET idxs == {i \in DOMAIN merged : merged[i].name = cookie_name}
  IN IF idxs = {} THEN 0 ELSE CHOOSE i \in idxs : \A j \in idxs : i <= j

\* a round that drops the existing record and appends the new one
merge_one_MoveToEnd(merged, new_cookie) ==
  Append(SelectSeq(merged, LAMBDA c : c.name # new_cookie.name), new_cookie)

\* a round that appends whether or not the name is held
merge_one_AlwaysAppend(merged, new_cookie) == Append(merged, new_cookie)

\* a round that leaves a held name as it is
merge_one_KeepExisting(merged, new_cookie) ==
  IF \E i \in DOMAIN merged : merged[i].name = new_cookie.name THEN merged
  ELSE Append(merged, new_cookie)

\* one round of the loop of merge_cookie_lists
merge_one(merged, new_cookie) ==
  LET idx == existing_idx(merged, new_cookie.name)
  IN IF idx # 0 THEN [merged EXCEPT ![idx] = new_cookie]
     ELSE Append(merged, new_cookie)

\* CookieFormatter.merge_cookie_lists, the merged list
RECURSIVE merge_cookie_lists(_, _)
merge_cookie_lists(existing_cookies, new_cookies) ==
  IF new_cookies = <<>> THEN existing_cookies
  ELSE merge_one(
         merge_cookie_lists(existing_cookies,
                            SubSeq(new_cookies, 1, Len(new_cookies) - 1)),
         new_cookies[Len(new_cookies)])

RECURSIVE format_webdriver_list(_)
format_webdriver_list(cookies_wd) ==
  IF cookies_wd = <<>> THEN <<>>
  ELSE Append(format_webdriver_list(SubSeq(cookies_wd, 1, Len(cookies_wd) - 1)),
              format_webdriver_cookie(cookies_wd[Len(cookies_wd)]))

Names(cookie_list) == {cookie_list[i].name : i \in DOMAIN cookie_list}

\* step 2 adding every script cookie
add_missing_Always(cookies_data, js_cookies) == cookies_data \o js_cookies

\* step 2 of collect_webdriver_cookies: script cookies whose name is missing
RECURSIVE add_missing(_, _)
add_missing(cookies_data, js_cookies) ==
  IF js_cookies = <<>> THEN cookies_data
  ELSE LET acc == add_missing(cookies_data,
                              SubSeq(js_cookies, 1, Len(js_cookies) - 1))
           js_cookie == js_cookies[Len(js_cookies)]
       IN IF js_cookie.name \notin Names(acc) THEN Append(acc, js_cookie)
          ELSE acc

\* CookieFormatter.collect_webdriver_cookies: wd.ok is false when
\* driver.get_cookies() raises
collect_webdriver_cookies(wd, js_cookie_string) ==
  add_missing(IF wd.ok THEN format_webdriver_list(wd.cookies) ELSE <<>>,
              parse_js_cookies(js_cookie_string))

\* CookieFormatter.format_cookie_list with formatter_type 'nodriver'
RECURSIVE format_cookie_list(_)
format_cookie_list(cookie_list) ==
  IF cookie_list = <<>> THEN <<>>
  ELSE LET rest == format_cookie_list(
                     SubSeq(cookie_list, 1, Len(cookie_list) - 1))
           formatted == format_nodriver_cookie(cookie_list[Len(cookie_list)])
       IN IF formatted.raised THEN rest ELSE Append(rest, formatted.value)

\* what driver.get_cookies() can hold for the site
WdCookies ==
  {[name |-> "sid", value |-> "1"],
   [name |-> "sid", value |-> "2", domain |-> "m.coupang.com",
    path |-> "/nm", secure |-> TRUE, httpOnly |-> TRUE, expiry |-> "1767225600"],
   [name |-> "PCID", value |-> "1", domain |-> ".coupang.com", path |-> "/"]}

WdResults ==
  {[ok |-> FALSE, cookies |-> <<>>]}
  \cup {[ok |-> TRUE, cookies |-> c] : c \in SeqsUpTo(WdCookies, MaxWd)}

\* document.cookie: pairs, a bare token, a padded pair, a value holding '='
JsPairs == {<<"sid", "3">>, <<" sid", "3 ">>, <<"x-token">>, <<"PCID", "a", "b">>}

JsStrings == SeqsUpTo(JsPairs, MaxJs)

\* cookies the DevTools protocol or the nodriver object model hands over
NdCookies ==
  {[kind |-> "object",
    f |-> [name |-> "sid", value |-> "1", domain |-> ".coupang.com",
           path |-> "/", secure |-> TRUE, same_site |-> None]],
   [kind |-> "object", f |-> [name |-> "sid", value |-> "2"]],
   [kind |-> "dict",
    f |-> [name |-> "PCID", value |-> "1", domain |-> "www.coupang.com",
           path |-> "/np", secure |-> TRUE]],
   [kind |-> "dict", f |-> [name |-> "sid", value |-> "4"]]}

NdLists == SeqsUpTo(NdCookies, MaxWd)

\* ------------------------------------------------------------ TlsExtractor
MaxCiphers == 2

\* _get_chrome_cipher_suites
chrome_cipher_suites ==
  <<[id |-> 4865, name |-> "TLS_AES_128_GCM_SHA256"],
    [id |-> 4866, name |-> "TLS_AES_256_GCM_SHA384"],
    [id |-> 4867, name |-> "TLS_CHACHA20_POLY1305_SHA256"],
    [id |-> 49195, name |-> "TLS_ECDHE_ECDSA_WITH_AES_128_GCM_SHA256"],
    [id |-> 49199, name |-> "TLS_ECDHE_RSA_WITH_AES_128_GCM_SHA256"],
    [id |-> 49196, name |-> "TLS_ECDHE_ECDSA_WITH_AES_256_GCM_SHA384"],
    [id |-> 49200, name |-> "TLS_ECDHE_RSA_WITH_AES_256_GCM_SHA384"],
    [id |-> 52393, name |-> "TLS_ECDHE_ECDSA_WITH_CHACHA20_POLY1305_SHA256"],
    [id |-> 52392, name |-> "TLS_ECDHE_RSA_WITH_CHACHA20_POLY1305_SHA256"],
    [id |-> 49191, name |-> "TLS_ECDHE_ECDSA_WITH_AES_128_CBC_SHA"],
    [id |-> 49171, name |-> "TLS_ECDHE_RSA_WITH_AES_128_CBC_SHA"],
    [id |-> 49192, name |-> "TLS_ECDHE_ECDSA_WITH_AES_256_CBC_SHA"],
    [id |-> 49172, name |-> "TLS_ECDHE_RSA_WITH_AES_256_CBC_SHA"],
    [id |-> 156, name |-> "TLS_RSA_WITH_AES_128_GCM_SHA256"],
    [id |-> 157, name |-> "TLS_RSA_WITH_AES_256_GCM_SHA384"],
    [id |-> 47, name |-> "TLS_RSA_WITH_AES_128_CBC_SHA"],
    [id |-> 53, name |-> "TLS_RSA_WITH_AES_256_CBC_SHA"]>>

\* _get_chrome_extensions
chrome_extensions ==
  <<[id |-> 0, name |-> "server_name"],
    [id |-> 10, name |-> "supported_groups"],
    [id |-> 11, name |-> "ec_point_formats"],
    [id |-> 13, name |-> "signature_algorithms"],
    [id |-> 16, name |-> "application_layer_protocol_negotiation"],
    [id |-> 18, name |-> "signed_certificate_timestamp"],
    [id |-> 22, name |-> "encrypt_then_mac"],
    [id |-> 23, name |-> "extended_master_secret"],
    [id |-> 27, name |-> "compress_certificate"],
    [id |-> 35, name |-> "session_ticket"],
    [id |-> 43, name |-> "supported_versions"],
    [id |-> 45, name |-> "psk_key_exchange_modes"],
    [id |-> 51, name |-> "key_share"],
    [id |-> 13172, name |-> "next_protocol_negotiation"],
    [id |-> 17513, name |-> "application_settings"],
    [id |-> 65281, name |-> "renegotiation_info"]>>

\* _get_chrome_supported_groups, _get_chrome_signature_algorithms
chrome_supported_groups == <<"X25519", "secp256r1", "secp384r1">>

chrome_signature_algorithms ==
  <<"ecdsa_secp256r1_sha256", "rsa_pss_rsae_sha256", "rsa_pkcs1_sha256",
    "ecdsa_secp384r1_sha384", "rsa_pss_rsae_sha384", "rsa_pkcs1_sha384",
    "rsa_pss_rsae_sha512", "rsa_pkcs1_sha512">>

\* _get_http2_settings
http2_settings_default ==
  [SETTINGS_HEADER_TABLE_SIZE |-> 65536,
   SETTINGS_ENABLE_PUSH |-> 0,
   SETTINGS_MAX_CONCURRENT_STREAMS |-> 1000,
   SETTINGS_INITIAL_WINDOW_SIZE |-> 6291456,
   SETTINGS_MAX_FRAME_SIZE |-> 16384,
   SETTINGS_MAX_HEADER_LIST_SIZE |-> 262144]

\* _generate_akamai_fingerprint
generate_akamai_fingerprint ==
  LET settings == http2_settings_default
  IN "1:" \o ToString(settings.SETTINGS_HEADER_TABLE_SIZE)
     \o ";2:" \o ToString(settings.SETTINGS_ENABLE_PUSH)
     \o ";3:" \o ToString(settings.SETTINGS_MAX_CONCURRENT_STREAMS)
     \o ";4:" \o ToString(settings.SETTINGS_INITIAL_WINDOW_SIZE)
     \o ";5:" \o ToString(settings.SETTINGS_MAX_FRAME_SIZE)
     \o ";6:" \o ToString(settings.SETTINGS_MAX_HEADER_LIST_SIZE)
     \o "|15663105|0|m,a,s,p"

\* _get_fallback_data
get_fallback_data ==
  [tls_data |-> [tls_version |-> "TLS 1.3",
                 cipher_suites |-> chrome_cipher_suites,
                 extensions |-> chrome_extensions,
                 supported_groups |-> chrome_supported_groups,
                 signature_algorithms |-> chrome_signature_algorithms],
   http2_data |-> [settings |-> http2_settings_default,
                   akamai_fingerprint |-> generate_akamai_fingerprint]]

\* names of a list of dicts: [x.get('name', '') for x in items]
RECURSIVE names_of(_)
names_of(items) ==
  IF items = <<>> THEN <<>>
  ELSE Append(names_of(SubSeq(items, 1, Len(items) - 1)),
              Get(items[Len(items)], "name", ""))

\* the data of the first extension called ext_name, an empty dict for none
ext_data(extensions, ext_name) ==
  LET idxs == {i \in DOMAIN extensions :
                 Get(extensions[i], "name", None) = ext_name}
  IN IF idxs = {} THEN EmptyDict
     ELSE Get(extensions[CHOOSE i \in idxs : \A j \in idxs : i <= j],
              "data", EmptyDict)

\* setting_name.startswith('GREASE')
StartsWithGrease(name) == name \in {"GREASE", "GREASE_0a0a"}

\* the SETTINGS of the first SETTINGS frame, GREASE entries left out
RECURSIVE http2_settings_of(_)
http2_settings_of(settings) ==
  IF settings = <<>> THEN EmptyDict
  ELSE LET setting == settings[Len(settings)]
           rest == http2_settings_of(SubSeq(settings, 1, Len(settings) - 1))
           setting_name == Get(setting, "name", "")
       IN IF StartsWithGrease(setting_name) THEN rest
          ELSE Put(rest, setting_name, Get(setting, "value", 0))

http2_settings(http2_section) ==
  LET idxs == {i \in DOMAIN http2_section :
                 Get(http2_section[i], "name", None) = "SETTINGS"}
  IN IF idxs = {} THEN EmptyDict
     ELSE http2_settings_of(
            Get(http2_section[CHOOSE i \in idxs : \A j \in idxs : i <= j],
                "settings", <<>>))

\* the body of the try block of extract once json.loads returned
\* browserleaks_data; a value that is not a dict has no get()
extract_live(browserleaks_data) ==
  IF browserleaks_data.t # "dict" THEN get_fallback_data
  ELSE LET bd == browserleaks_data.v
           tls_section == Get(bd, "tls", [t |-> "dict", v |-> EmptyDict])
       IN IF tls_section.t # "dict" THEN get_fallback_data
          ELSE LET cipher_suites == Get(tls_section.v, "cipher_suites", <<>>)
                   extensions == Get(tls_section.v, "extensions", <<>>)
                   supported_groups ==
                     names_of(Get(ext_data(extensions, "supported_groups"),
                                  "named_groups", <<>>))
                   signature_algorithms ==
                     names_of(Get(ext_data(extensions, "signature_algorithms"),
                                  "algorithms", <<>>))
               IN [tls_data |->
                     [tls_version |->
                        Get(Get(tls_section.v, "connection_version", EmptyDict),
                            "name", "TLS 1.3"),
                      cipher_suites |-> cipher_suites,
                      extensions |-> extensions,
                      supported_groups |-> supported_groups,
                      signature_algorithms |-> signature_algorithms,
                      ja3_hash |-> Get(bd, "ja3_hash", ""),
                      ja3_text |-> Get(bd, "ja3_text", <<>>)],
                   http2_data |->
                     [settings |-> http2_settings(Get(bd, "http2", <<>>)),
                      akamai_fingerprint |-> Get(bd, "akamai_hash", ""),
                      akamai_text |-> Get(bd, "akamai_text", "")]]

\* TlsExtractor.extract for one behaviour of the browser and the oracle page
extract(o) ==
  IF o.kind \in {"navigation_error", "script_error"} THEN get_fallback_data
  ELSE IF o.kind = "empty" THEN get_fallback_data
  ELSE IF o.kind = "not_json" THEN get_fallback_data
  ELSE extract_live(o.value)

\* ','.join(str(x['id']) for x in items) as comma-separated parts
comma_ids(items) ==
  IF items = <<>> THEN <<"">>
  ELSE [i \in DOMAIN items |-> ToString(items[i].id)]

\* ','.join(parts)
RECURSIVE join_comma(_)
join_comma(parts) ==
  IF parts = <<>> THEN ""
  ELSE IF Len(parts) = 1 THEN parts[1]
  ELSE parts[1] \o "," \o join_comma(Tail(parts))

\* hashlib.md5(text.encode()).hexdigest(), one digest per text
md5(text) == "md5(" \o text \o ")"

\* the comma-separated fields of the string generate_ja3_hash hashes
hashed_ja3_fields(tls_data) ==
  <<"771">> \o comma_ids(tls_data.cipher_suites)
    \o comma_ids(tls_data.extensions)
    \o <<"29", "23", "24">> \o <<"0">>

\* TlsExtractor.generate_ja3_hash: <<hash>>, or a KeyError for an entry
\* without 'id'
generate_ja3_hash(tls_data) ==
  IF \/ \E i \in DOMAIN tls_data.cipher_suites :
          "id" \notin DOMAIN tls_data.cipher_suites[i]
     \/ \E i \in DOMAIN tls_data.extensions :
          "id" \notin DOMAIN tls_data.extensions[i]
  THEN [raised |-> TRUE, value |-> <<>>]
  ELSE [raised |-> FALSE,
        value |-> <<md5(join_comma(hashed_ja3_fields(tls_data)))>>]

\* cipher suites and extensions an oracle page can list
OracleCiphers ==
  {[id |-> 4865, name |-> "TLS_AES_128_GCM_SHA256"],
   [id |-> 2570, name |-> "TLS_GREASE (0x0A0A)"],
   [name |-> "TLS_AES_256_GCM_SHA384"]}

OracleExtensionLists ==
  {<<>>,
   <<[id |-> 0, name |-> "server_name"],
     [id |-> 10, name |-> "supported_groups",
      data |-> [named_groups |-> <<[name |-> "X25519"], [name |-> "GREASE"]>>]]>>,
   <<[id |-> 13, name |-> "signature_algorithms",
      data |-> [algorithms |-> <<[name |-> "ecdsa_secp256r1_sha256"]>>]]>>,
   <<[name |-> "key_share"]>>}

\* optional key k with a value of S
Optional(k, S) == {EmptyDict} \cup {k :> x : x \in S}

OracleTlsSections ==
  {c @@ e @@ v :
     c \in Optional("cipher_suites", SeqsUpTo(OracleCiphers, MaxCiphers)),
     e \in Optional("extensions", OracleExtensionLists),
     v \in Optional("connection_version", {[name |-> "TLS 1.2"]})}

OracleHttp2 ==
  {<<[name |-> "SETTINGS",
      settings |-> <<[name |-> "HEADER_TABLE_SIZE", value |-> 65536],
                     [name |-> "GREASE", value |-> 0]>>],
     [name |-> "WINDOW_UPDATE"]>>}

\* the JA3 text an oracle page reports, and its digest
OracleJa3Text == <<"771", "4865", "0-10", "29", "0">>

OracleDicts ==
  {t @@ h @@ j :
     t \in Optional("tls", {[t |-> "null"]}
                           \cup {[t |-> "dict", v |-> x] : x \in OracleTlsSections}),
     h \in Optional("http2", OracleHttp2),
     j \in {EmptyDict,
            ("ja3_hash" :> md5(join_comma(OracleJa3Text)))
            @@ ("ja3_text" :> OracleJa3Text)
            @@ ("akamai_hash" :> "52d84b11737d980aef856699f885ca86")
            @@ ("akamai_text" :> "1:65536|15663105|0|m,a,s,p")}}

\* behaviours of the browser session and the oracle page
Oracles ==
  {[kind |-> k] : k \in {"navigation_error", "script_error", "empty", "not_json"}}
  \cup {[kind |-> "json", value |-> [t |-> "list"]]}
  \cup {[kind |-> "json", value |-> [t |-> "dict", v |-> d]] : d \in OracleDicts}

\* -------------------------------------------------------------- the state
VARIABLES
  variant,          \* which crawler runs: curlcffi.py or curlcffi-mobile.py
  max_pages,
  tls_fingerprints, \* storage table, oldest first
  cookies,          \* storage table, oldest first
  data,             \* what the load returned
  chrome_version,
  extra_fp,
  jar,              \* session.cookies
  page_num,
  content,          \* response.text of the page being validated
  page_results,
  requests,         \* page numbers of the session.get calls of the loop
  save_outcome,     \* how the final cookie save ended
  result,           \* <<b>> once crawl_multipage returned b, <<>> before
  ja3_string,       \* mobile: the JA3 string handed to session.get
  traceid,          \* <<>> for None, <<id>> once generated
  now,              \* clock, in ms
  calls,            \* url and configuration of each session.get of the loop
  pc,
  source,           \* cookie collection: "webdriver" (mobile) or "nodriver" (PC)
  cphase,           \* position of the cookie collection
  raw,              \* what the driver handed over at the latest collection
  cookies_data,     \* the cookie set of the collection
  new_cookies,      \* cookies collected after the search
  existing_cookies, \* argument of the latest merge_cookie_lists call
  oracle,           \* how the browser and the oracle page behave
  tls_info,         \* what TlsExtractor.extract returned
  ja3_hash,         \* <<hash>> once the caller derived it
  xphase,           \* position of the fingerprint acquisition
  tls_model,        \* stored tls_data handed to the configuration builders
  replay,           \* what the builders returned for tls_model
  jphase,           \* position of the configuration building
  collector,        \* collection run: "pc" (main-pc.py) or "mobile"
  mphase,           \* position of main
  worker,           \* the pool thread of main-pc.py running run_collection
  future,           \* what the thread left in its Future
  collected,        \* main's result (pc), tls_result and cookie_result (mobile)
  fp_rows,          \* table tls_fingerprints, oldest first
  cookie_rows,      \* table cookies, oldest first
  tls_fingerprint_id, \* <<id>> once save_tls_fingerprint returned
  exit_code,        \* <<code>> once main returned
  fphase,           \* position of CookieCollector.collect
  search_keyword,   \* self.search_keyword, None without a search
  collect_max_pages, \* self.max_pages
  browser,          \* self.browser: "none", "running", "stopped"
  close_calls,      \* how often close() was invoked
  main_page_cookies, \* <<n>>: the cookies read after n navigation attempts
  final_cookie_list, \* cookie_list of collect, same encoding
  search_blocked,   \* <<flag>> once search page 1 was classified
  navs,             \* navigation attempts to pages 2.., in order
  poll,             \* the polling loop being run, or the last one run
  last_check,       \* the latest check_if_blocked: what it read and returned
  failed            \* an exception is propagating out of collect

crawl_vars ==
  <<variant, max_pages, tls_fingerprints, cookies, data, chrome_version,
    extra_fp, jar, page_num, content, page_results, requests, save_outcome,
    result, ja3_string, traceid, now, calls, pc>>

cookie_vars ==
  <<source, cphase, raw, cookies_data, new_cookies, existing_cookies>>

extract_vars == <<oracle, tls_info, ja3_hash, xphase>>

build_vars == <<tls_model, replay, jphase>>

main_vars ==
  <<collector, mphase, worker, future, collected, fp_rows, cookie_rows,
    tls_fingerprint_id, exit_code>>

flow_vars ==
  <<fphase, search_keyword, collect_max_pages, browser, close_calls,
    main_page_cookies, final_cookie_list, search_blocked, navs, poll, last_check,
    failed>>

\* the variables a crawl run leaves alone
collect_vars == <<cookie_vars, extract_vars, build_vars, main_vars, flow_vars>>

vars == <<crawl_vars, collect_vars>>

NoRaw == [none |-> TRUE]

\* no cookie collection is running
CookieIdle ==
  /\ source = "none"
  /\ cphase = "off"
  /\ raw = NoRaw
  /\ cookies_data = <<>>
  /\ new_cookies = <<>>
  /\ existing_cookies = <<>>

\* no fingerprint acquisition is running
ExtractIdle ==
  /\ oracle = [kind |-> "none"]
  /\ tls_info = NoData
  /\ ja3_hash = <<>>
  /\ xphase = "off"

\* no configuration is being built
BuildIdle ==
  /\ tls_model = NoData
  /\ replay = NoData
  /\ jphase = "off"

\* no collection run
MainIdle ==
  /\ collector = "none"
  /\ mphase = "off"
  /\ worker = "idle"
  /\ future = NoData
  /\ collected = NoData
  /\ fp_rows = <<>>
  /\ cookie_rows = <<>>
  /\ tls_fingerprint_id = <<>>
  /\ exit_code = <<>>

\* no CookieCollector.collect is running
FlowIdle ==
  /\ fphase = "off"
  /\ search_keyword = None
  /\ collect_max_pages = 1
  /\ browser = "none"
  /\ close_calls = 0
  /\ main_page_cookies = <<>>
  /\ final_cookie_list = <<>>
  /\ search_blocked = <<>>
  /\ navs = <<>>
  /\ poll = NoData
  /\ last_check = NoData
  /\ failed = FALSE

\* no crawl is running
CrawlIdle ==
  /\ variant = "pc"
  /\ max_pages = 1
  /\ tls_fingerprints = <<>>
  /\ cookies = <<>>
  /\ data = NoData
  /\ chrome_version = "None"
  /\ extra_fp = EmptyDict
  /\ jar = EmptyDict
  /\ page_num = 0
  /\ content = NoContent
  /\ page_results = <<>>
  /\ requests = <<>>
  /\ save_outcome = "none"
  /\ result = <<>>
  /\ ja3_string = <<>>
  /\ traceid = <<>>
  /\ now = StartMs
  /\ calls = <<>>
  /\ pc = "off"

Init ==
  /\ variant \in Variants
  /\ max_pages \in 1..MaxPagesBound
  /\ \E db \in DbOptions :
       /\ tls_fingerprints = db.tls_fingerprints
       /\ cookies = db.cookies
  /\ data = NoData
  /\ chrome_version = "None"
  /\ extra_fp = EmptyDict
  /\ jar = EmptyDict
  /\ page_num = 0
  /\ content = NoContent
  /\ page_results = <<>>
  /\ requests = <<>>
  /\ save_outcome = "none"
  /\ result = <<>>
  /\ ja3_string = <<>>
  /\ traceid = <<>>
  /\ now = StartMs
  /\ calls = <<>>
  /\ pc = "start"
  /\ FlowIdle
  /\ CookieIdle
  /\ ExtractIdle
  /\ BuildIdle
  /\ MainIdle

\* load the latest fingerprint, build the configuration, fill the session
LoadFingerprint ==
  /\ pc = "start"
  /\ LET d == IF variant = "pc"
              THEN get_latest_fingerprint(tls_fingerprints, cookies)
              ELSE get_latest_mobile_fingerprint(tls_fingerprints, cookies)
         cv == IF variant = "pc" THEN chrome_version_of(d.device_name)
               ELSE [raised |-> FALSE, value |-> "None"]
         built == build_ja3_string(d.tls_data)
     IN IF d = NoData
        THEN /\ result' = <<FALSE>>
             /\ pc' = "returned"
             /\ UNCHANGED <<data, chrome_version, extra_fp, jar, ja3_string>>
        ELSE IF cv.raised
        THEN /\ pc' = "raised"
             /\ data' = d
             /\ UNCHANGED <<result, chrome_version, extra_fp, jar, ja3_string>>
        ELSE IF variant = "mobile" /\ debug_print_raises(built)
        THEN /\ pc' = "raised"
             /\ data' = d
             /\ ja3_string' = built
             /\ UNCHANGED <<result, chrome_version, extra_fp, jar>>
        ELSE /\ data' = d
             /\ chrome_version' = cv.value
             /\ ja3_string' = IF variant = "pc" THEN ja3_string
                              ELSE force_tls12_ja3(built)
             /\ extra_fp' = build_extra_fp(d.tls_data)
             /\ jar' = to_dict(d.cookies)
             /\ pc' = "verify"
             /\ UNCHANGED result
  /\ UNCHANGED <<variant, max_pages, tls_fingerprints, cookies, page_num,
                 content, page_results, requests, save_outcome, traceid, now,
                 calls>>
  /\ UNCHANGED collect_vars

\* verify_tls: its own try/except swallows every failure; the session may
\* pick up cookies
VerifyTls ==
  /\ pc = "verify"
  /\ \E sc \in SetCookieOptions : jar' = Update(jar, sc)
  /\ IF variant = "mobile"
     THEN pc' = "homepage" /\ UNCHANGED page_num
     ELSE pc' = "loop" /\ page_num' = 1
  /\ now' = now + 1
  /\ UNCHANGED <<variant, max_pages, tls_fingerprints, cookies, data,
                 chrome_version, extra_fp, content, page_results, requests,
                 save_outcome, result, ja3_string, traceid, calls>>
  /\ UNCHANGED collect_vars

\* mobile only: homepage visit inside try/except
VisitHomepage ==
  /\ pc = "homepage"
  /\ \E sc \in SetCookieOptions : jar' = Update(jar, sc)
  /\ pc' = "loop"
  /\ page_num' = 1
  /\ now' = now + 1
  /\ UNCHANGED <<variant, max_pages, tls_fingerprints, cookies, data,
                 chrome_version, extra_fp, content, page_results, requests,
                 save_outcome, result, ja3_string, traceid, calls>>
  /\ UNCHANGED collect_vars

\* build_search_url, then session.get for page_num: a response, or an
\* exception that is recorded
FetchPage ==
  /\ pc = "loop"
  /\ \E rsc_param \in RscParams :
       LET b == build_search_url(variant, keyword, page_num, traceid,
                                 rsc_param, now)
       IN /\ traceid' = b.traceid
          /\ calls' = Append(calls,
               [url |-> b.url,
                config |-> request_config(variant, ja3_string, extra_fp)])
          /\ \/ \E e \in Errors :
                  /\ page_results' = record_page(page_results,
                        [page |-> page_num, url |-> b.url, success |-> FALSE,
                         error |-> e])
                  /\ pc' = AfterException(page_num, max_pages)
                  /\ page_num' = IF pc' = "loop" THEN NextPageNum(page_num)
                                 ELSE page_num
                  /\ UNCHANGED <<content, jar>>
             \/ /\ content' \in Contents
                /\ \E sc \in SetCookieOptions : jar' = Update(jar, sc)
                /\ pc' = "validate"
                /\ UNCHANGED <<page_results, page_num>>
  /\ requests' = Append(requests, page_num)
  /\ now' = now + 1
  /\ UNCHANGED <<variant, max_pages, tls_fingerprints, cookies, data,
                 chrome_version, extra_fp, save_outcome, result, ja3_string>>
  /\ UNCHANGED collect_vars

\* validate_response, save the artifact, append the PageResult, go on or stop
ValidatePage ==
  /\ pc = "validate"
  /\ LET v == Validate(variant, content, page_num)
         ok == v.has_products /\ ~v.is_blocked
     IN /\ page_results' = record_page(page_results,
              [page |-> page_num, url |-> Last(calls).url,
               size |-> content.length, success |-> ok,
               file |-> <<page_num, page_ext(variant, page_num, ok)>>])
        /\ pc' = IF ok THEN LoopNext(page_num, max_pages)
                 ELSE AfterFailed(v.is_blocked, page_num, max_pages)
  /\ page_num' = IF pc' = "loop" THEN NextPageNum(page_num) ELSE page_num
  /\ content' = NoContent
  /\ UNCHANGED <<variant, max_pages, tls_fingerprints, cookies, data,
                 chrome_version, extra_fp, jar, requests, save_outcome, result,
                 ja3_string, traceid, now, calls>>
  /\ UNCHANGED collect_vars

\* the final cookie save: data['tls_fingerprint_id'] is evaluated before the
\* storage call
SaveCookies ==
  /\ pc = "finalize"
  /\ IF "tls_fingerprint_id" \notin DOMAIN data
     THEN /\ save_outcome' = "KeyError"
          /\ pc' = OnSaveError(variant)
          /\ UNCHANGED cookies
     ELSE \/ /\ cookies' = Append(cookies,
                  [tls_fingerprint_id |-> data.tls_fingerprint_id,
                   device_name |-> data.device_name,
                   browser |-> IF variant = "pc" THEN "chrome"
                               ELSE Get(data, "browser", "Chrome"),
                   os_version |-> IF variant = "pc" THEN "Windows 10"
                                  ELSE Get(data, "os_version", "Unknown"),
                   cookie_type |-> IF variant = "pc" THEN "crawled" ELSE "mobile",
                   cookie_data |-> final_cookies(jar)])
             /\ save_outcome' = "saved"
             /\ pc' = "summary"
          \/ /\ save_outcome' = "write_error"
             /\ pc' = OnSaveError(variant)
             /\ UNCHANGED cookies
  /\ UNCHANGED <<variant, max_pages, tls_fingerprints, data, chrome_version,
                 extra_fp, jar, page_num, content, page_results, requests,
                 result, ja3_string, traceid, now, calls>>
  /\ UNCHANGED collect_vars

\* summary, save_results, return
Summary ==
  /\ pc = "summary"
  /\ result' = <<crawl_result(page_results, max_pages)>>
  /\ pc' = "returned"
  /\ UNCHANGED <<variant, max_pages, tls_fingerprints, cookies, data,
                 chrome_version, extra_fp, jar, page_num, content,
                 page_results, requests, save_outcome, ja3_string, traceid,
                 now, calls>>
  /\ UNCHANGED collect_vars

Next ==
  \/ LoadFingerprint
  \/ VerifyTls
  \/ VisitHomepage
  \/ FetchPage
  \/ ValidatePage
  \/ SaveCookies
  \/ Summary

Spec == Init /\ [][Next]_vars

\* every step of a run ends: requests carry timeout=10
FairSpec == Spec /\ WF_vars(Next)

\* ------------------------------------------------------ cookie collection
CookieInit ==
  /\ FlowIdle
  /\ CrawlIdle
  /\ ExtractIdle
  /\ BuildIdle
  /\ MainIdle
  /\ source \in {"webdriver", "nodriver"}
  /\ cphase = "main"
  /\ raw = NoRaw
  /\ cookies_data = <<>>
  /\ new_cookies = <<>>
  /\ existing_cookies = <<>>

\* MobileCollector.collect_cookies up to the search: document.cookie is read,
\* then collect_webdriver_cookies; an exception of the driver ends the
\* collection with None
CollectCookies ==
  /\ source = "webdriver"
  /\ cphase = "main"
  /\ \/ /\ cphase' = "failed"
        /\ UNCHANGED <<raw, cookies_data>>
     \/ \E wd \in WdResults, js \in JsStrings, search \in BOOLEAN :
          /\ raw' = [wd |-> wd, js |-> js]
          /\ cookies_data' = collect_webdriver_cookies(wd, js)
          /\ cphase' = IF search THEN "search" ELSE "done"
  /\ UNCHANGED <<source, new_cookies, existing_cookies, crawl_vars, flow_vars,
                 extract_vars, build_vars, main_vars>>

\* the search and the collection after it; an exception inside the search
\* block is printed and the cookies collected so far are returned
CollectAfterSearch ==
  /\ cphase = "search"
  /\ \/ /\ cphase' = "done"
        /\ UNCHANGED <<raw, new_cookies>>
     \/ \E wd \in WdResults, js \in JsStrings :
          /\ raw' = [wd |-> wd, js |-> js]
          /\ new_cookies' = collect_webdriver_cookies(wd, js)
          /\ cphase' = "merge"
  /\ UNCHANGED <<source, cookies_data, existing_cookies, crawl_vars, flow_vars,
                 extract_vars, build_vars, main_vars>>

\* cookies_data, cookie_names = merge_cookie_lists(cookies_data, new_cookies)
MergeCookies ==
  /\ cphase = "merge"
  /\ existing_cookies' = cookies_data
  /\ cookies_data' = merge_cookie_lists(existing_cookies', new_cookies)
  /\ cphase' = "done"
  /\ UNCHANGED <<source, raw, new_cookies, crawl_vars, flow_vars,
                 extract_vars, build_vars, main_vars>>

\* CookieCollector.collect: format_cookie_list(cookie_list, 'nodriver')
FormatCookies ==
  /\ source = "nodriver"
  /\ cphase = "main"
  /\ \E cookie_list \in NdLists :
       /\ raw' = [nd |-> cookie_list]
       /\ cookies_data' = format_cookie_list(cookie_list)
  /\ cphase' = "done"
  /\ UNCHANGED <<source, new_cookies, existing_cookies, crawl_vars, flow_vars,
                 extract_vars, build_vars, main_vars>>

CookieNext ==
  \/ CollectCookies
  \/ CollectAfterSearch
  \/ MergeCookies
  \/ FormatCookies

CookieSpec == CookieInit /\ [][CookieNext]_vars

\* ------------------------------------------------- merge as a function
MaxMerge == 2

\* canonical records the adapters produce
MergeRecords ==
  {format_webdriver_cookie(c) : c \in WdCookies}
  \cup {parse_js_cookies(<<p>>)[1] : p \in {q \in JsPairs : Len(q) >= 2}}

MergeInit ==
  /\ FlowIdle
  /\ CrawlIdle
  /\ ExtractIdle
  /\ BuildIdle
  /\ MainIdle
  /\ source = "webdriver"
  /\ cphase = "merge"
  /\ raw = NoRaw
  /\ cookies_data \in SeqsUpTo(MergeRecords, MaxMerge)
  /\ new_cookies \in SeqsUpTo(MergeRecords, MaxMerge)
  /\ existing_cookies = <<>>

MergeNext == MergeCookies

MergeSpec == MergeInit /\ [][MergeNext]_vars

\* ------------------------------------------------ fingerprint acquisition
ExtractInit ==
  /\ FlowIdle
  /\ CrawlIdle
  /\ CookieIdle
  /\ BuildIdle
  /\ MainIdle
  /\ oracle \in Oracles
  /\ tls_info = NoData
  /\ ja3_hash = <<>>
  /\ xphase = "start"

\* tls_info = await tls_extractor.extract()
Extract ==
  /\ xphase = "start"
  /\ tls_info' = extract(oracle)
  /\ xphase' = "extracted"
  /\ UNCHANGED <<oracle, ja3_hash, crawl_vars, flow_vars, cookie_vars,
                 build_vars, main_vars>>

\* CookieCollector.collect using the model: generate_ja3_hash on tls_data,
\* then tls_info['http2_data']['akamai_fingerprint']
UseModel ==
  /\ xphase = "extracted"
  /\ LET h == generate_ja3_hash(tls_info.tls_data)
     IN IF h.raised \/ "akamai_fingerprint" \notin DOMAIN tls_info.http2_data
        THEN xphase' = "raised" /\ UNCHANGED ja3_hash
        ELSE xphase' = "done" /\ ja3_hash' = h.value
  /\ UNCHANGED <<oracle, tls_info, crawl_vars, flow_vars, cookie_vars,
                 build_vars, main_vars>>

ExtractNext ==
  \/ Extract
  \/ UseModel

ExtractSpec == ExtractInit /\ [][ExtractNext]_vars

\* ------------------------------------------------- configuration builders
MaxEntries == 2

\* a JSON object where the code expects a string
Dict == "<dict>"

\* cipher_suites entries of a stored tls_data: well formed, GREASE, without
\* name, with a null name, and a JSON string in place of the object
StoredCiphers ==
  {[id |-> 4865, name |-> "TLS_AES_128_GCM_SHA256"],
   [id |-> 2570, name |-> "TLS_GREASE (0x0A0A)"],
   [id |-> 4867],
   [id |-> 4866, name |-> None],
   [t |-> "str", v |-> "TLS_AES_128_GCM_SHA256"]}

StoredExtensionLists ==
  {<<>>,
   <<[id |-> 0, name |-> "server_name"], [id |-> 10, name |-> "supported_groups"]>>,
   <<[id |-> 10, name |-> "supported_groups"], [id |-> 0, name |-> "server_name"]>>,
   <<[id |-> 10, name |-> "supported_groups"], [id |-> 2570, name |-> "GREASE"]>>,
   <<[name |-> "key_share"]>>}

StoredGroupLists ==
  {<<>>,
   <<"X25519", "secp256r1">>,
   <<"secp256r1", "X25519">>,
   <<"GREASE", "x25519">>,
   <<"ffdhe2048">>,
   <<Dict>>}

\* tls_version and ja3_text of a stored tls_data; <<>> is the empty text
StoredHeads ==
  {EmptyDict,
   "tls_version" :> "TLS 1.3",
   "tls_version" :> "TLS 1.2",
   ("tls_version" :> "TLS 1.3") @@ ("ja3_text" :> <<>>),
   ("tls_version" :> "TLS 1.3")
     @@ ("ja3_text" :> <<"772", "4865-4866", "0-10", "29-23", "0">>),
   ("tls_version" :> "TLS 1.3")
     @@ ("ja3_text" :> <<"771", "4865-4866", "0-10", "29-23", "0">>)}

StoredTlsData ==
  {h @@ c @@ e @@ g :
     h \in StoredHeads,
     c \in Optional("cipher_suites", SeqsUpTo(StoredCiphers, MaxEntries)),
     e \in Optional("extensions", StoredExtensionLists),
     g \in Optional("supported_groups", StoredGroupLists)}

\* an entry that has get(): a JSON object
is_dict(entry) == "t" \notin DOMAIN entry

\* build_ja3_string raising: an entry without get() (AttributeError), a null
\* name tested for the marker, a group that is not a string (TypeError)
build_ja3_raises(tls_data) ==
  LET entry_raises(it) ==
        \/ ~is_dict(it)
        \/ Get(it, "id", 0) # 0 /\ Get(it, "name", "") = None
      cipher_suites == Get(tls_data, "cipher_suites", <<>>)
      extensions == Get(tls_data, "extensions", <<>>)
      supported_groups == Get(tls_data, "supported_groups", <<>>)
  IN /\ Get(tls_data, "ja3_text", <<>>) = <<>>
     /\ \/ \E i \in DOMAIN cipher_suites : entry_raises(cipher_suites[i])
        \/ \E i \in DOMAIN extensions : entry_raises(extensions[i])
        \/ \E i \in DOMAIN supported_groups :
             supported_groups[i] \in {None, Dict}

BuildInit ==
  /\ FlowIdle
  /\ CrawlIdle
  /\ CookieIdle
  /\ ExtractIdle
  /\ MainIdle
  /\ tls_model \in StoredTlsData
  /\ replay = NoData
  /\ jphase = "start"

\* the builders as functions of a stored tls_data: build_ja3_string, then
\* force_tls12_ja3 on its result, and build_extra_fp
BuildReplay ==
  /\ jphase = "start"
  /\ IF build_ja3_raises(tls_model)
     THEN jphase' = "raised" /\ UNCHANGED replay
     ELSE /\ replay' = [ja3 |-> build_ja3_string(tls_model),
                        tls12 |-> force_tls12_ja3(build_ja3_string(tls_model)),
                        extra_fp |-> build_extra_fp(tls_model)]
          /\ jphase' = "built"
  /\ UNCHANGED <<tls_model, crawl_vars, flow_vars, cookie_vars, extract_vars, main_vars>>

BuildNext == BuildReplay

BuildSpec == BuildInit /\ [][BuildNext]_vars

\* force_tls12_ja3 as a function of any JA3 string: split(',') of a string
\* gives one field or more, the field of an empty string being empty
Ja3Fields == {"771", "772", "", "4865-4866"}

Ja3Strings == UNION {[1..k -> Ja3Fields] : k \in 1..MaxFields}

DowngradeInit ==
  /\ FlowIdle
  /\ CrawlIdle
  /\ CookieIdle
  /\ ExtractIdle
  /\ MainIdle
  /\ tls_model = NoData
  /\ replay \in {[ja3 |-> t] : t \in Ja3Strings}
  /\ jphase = "ja3"

\* the downgrade applied to the string, and again to its own result
Downgrade ==
  /\ jphase = "ja3"
  /\ replay' = [ja3 |-> replay.ja3,
                tls12 |-> force_tls12_ja3(replay.ja3),
                again |-> force_tls12_ja3(force_tls12_ja3(replay.ja3))]
  /\ jphase' = "downgraded"
  /\ UNCHANGED tls_model
  /\ UNCHANGED <<crawl_vars, flow_vars, cookie_vars, extract_vars, main_vars>>

DowngradeNext == Downgrade

DowngradeSpec == DowngradeInit /\ [][DowngradeNext]_vars

\* ---------------------------------------------------------- collection run
\* One behaviour is one run of main of main-pc.py or of main-mobile.py.  The
\* browser, the device and the database server are external: each of their
\* calls either returns or fails.

\* rows earlier runs left in the two tables
PriorFingerprints(n) ==
  [i \in 1..n |-> [id |-> i, ja3_hash |-> "ja3-a", collected_at |-> "earlier"]]

PriorCookies(n) ==
  [i \in 1..n |->
     [tls_fingerprint_id |-> <<i>>, cookie_type |-> "browser",
      cookie_data |-> <<"PCID">>, collected_at |-> "earlier"]]

\* what a collection hands to main
CollectedHashes == {"ja3-a", "ja3-b"}
CollectedCookies == {<<>>, <<"PCID">>, <<"PCID", "sid">>}
CollectResults == [ja3_hash : CollectedHashes, cookies : CollectedCookies]

\* cursor.lastrowid after the INSERT into a table holding rows
lastrowid(rows) == Len(rows) + 1

MainInit ==
  /\ FlowIdle
  /\ CrawlIdle
  /\ CookieIdle
  /\ ExtractIdle
  /\ BuildIdle
  /\ collector \in {"pc", "mobile"}
  /\ mphase = "start"
  /\ worker = "idle"
  /\ future = NoData
  /\ collected = NoData
  /\ \E n \in 0..MaxPrior :
       fp_rows = PriorFingerprints(n) /\ cookie_rows = PriorCookies(n)
  /\ tls_fingerprint_id = <<>>
  /\ exit_code = <<>>

\* return code from main
Return(code) == mphase' = "returned" /\ exit_code' = <<code>>

\* main-pc.py: executor.submit(run_collection)
Submit ==
  /\ collector = "pc"
  /\ mphase = "start"
  /\ worker' = "running"
  /\ mphase' = "waiting"
  /\ UNCHANGED <<collector, future, collected, fp_rows, cookie_rows,
                 tls_fingerprint_id, exit_code>>
  /\ UNCHANGED <<crawl_vars, flow_vars, cookie_vars, extract_vars, build_vars>>

\* the pool thread: collect_cookies returns its result
RunCollectionReturns ==
  /\ worker = "running"
  /\ worker' = "ended"
  /\ future' \in {[result |-> r] : r \in CollectResults}
  /\ UNCHANGED <<collector, mphase, collected, fp_rows, cookie_rows,
                 tls_fingerprint_id, exit_code>>
  /\ UNCHANGED <<crawl_vars, flow_vars, cookie_vars, extract_vars, build_vars>>

\* the pool thread: collect_cookies raises
RunCollectionRaises ==
  /\ worker = "running"
  /\ worker' = "ended"
  /\ future' = [exception |-> TRUE]
  /\ UNCHANGED <<collector, mphase, collected, fp_rows, cookie_rows,
                 tls_fingerprint_id, exit_code>>
  /\ UNCHANGED <<crawl_vars, flow_vars, cookie_vars, extract_vars, build_vars>>

\* future.result(timeout=...) returns the result or re-raises: the with
\* block is left with the thread already over
FutureResult ==
  /\ mphase = "waiting"
  /\ future # NoData
  /\ IF "result" \in DOMAIN future
     THEN /\ collected' = future.result
          /\ mphase' = "collected"
          /\ UNCHANGED exit_code
     ELSE Return(1) /\ UNCHANGED collected
  /\ UNCHANGED <<collector, worker, future, fp_rows, cookie_rows,
                 tls_fingerprint_id>>
  /\ UNCHANGED <<crawl_vars, flow_vars, cookie_vars, extract_vars, build_vars>>

\* future.result raises FuturesTimeoutError: TIMEOUTS['total_collection']
\* seconds passed and the Future is not done; the handler executes return 1
FutureTimeout ==
  /\ mphase = "waiting"
  /\ future = NoData
  /\ mphase' = "timed_out"
  /\ UNCHANGED <<collector, worker, future, collected, fp_rows, cookie_rows,
                 tls_fingerprint_id, exit_code>>
  /\ UNCHANGED <<crawl_vars, flow_vars, cookie_vars, extract_vars, build_vars>>

\* the return leaves the with block: ThreadPoolExecutor.__exit__ is
\* shutdown(wait=True), which joins the pool thread before main returns
ExecutorExit ==
  /\ mphase = "timed_out"
  /\ worker = "ended"
  /\ Return(1)
  /\ UNCHANGED <<collector, worker, future, collected, fp_rows, cookie_rows,
                 tls_fingerprint_id>>
  /\ UNCHANGED <<crawl_vars, flow_vars, cookie_vars, extract_vars, build_vars>>

\* main-mobile.py step 1: local_manager.start()
StartTunnel ==
  /\ collector = "mobile"
  /\ mphase = "start"
  /\ \/ mphase' = "tunnel" /\ UNCHANGED exit_code
     \/ Return(1)
  /\ UNCHANGED <<collector, worker, future, collected, fp_rows, cookie_rows,
                 tls_fingerprint_id>>
  /\ UNCHANGED <<crawl_vars, flow_vars, cookie_vars, extract_vars, build_vars>>

\* main-mobile.py step 2: collector.create_driver()
CreateDriver ==
  /\ mphase = "tunnel"
  /\ \/ mphase' = "driver" /\ UNCHANGED exit_code
     \/ Return(1)
  /\ UNCHANGED <<collector, worker, future, collected, fp_rows, cookie_rows,
                 tls_fingerprint_id>>
  /\ UNCHANGED <<crawl_vars, flow_vars, cookie_vars, extract_vars, build_vars>>

\* main-mobile.py step 3: collector.collect_tls_fingerprint(), None or an
\* exception ending the run
CollectTlsFingerprint ==
  /\ mphase = "driver"
  /\ \/ /\ collected' \in {[ja3_hash |-> h] : h \in CollectedHashes}
        /\ mphase' = "tls"
        /\ UNCHANGED exit_code
     \/ Return(1) /\ UNCHANGED collected
  /\ UNCHANGED <<collector, worker, future, fp_rows, cookie_rows,
                 tls_fingerprint_id>>
  /\ UNCHANGED <<crawl_vars, flow_vars, cookie_vars, extract_vars, build_vars>>

\* main-mobile.py step 4: collector.collect_cookies(), None or an exception
\* ending the run
MobileCollectCookies ==
  /\ mphase = "tls"
  /\ \/ /\ collected' \in {[ja3_hash |-> collected.ja3_hash, cookies |-> c] :
                            c \in CollectedCookies}
        /\ mphase' = "collected"
        /\ UNCHANGED exit_code
     \/ Return(1) /\ UNCHANGED collected
  /\ UNCHANGED <<collector, worker, future, fp_rows, cookie_rows,
                 tls_fingerprint_id>>
  /\ UNCHANGED <<crawl_vars, flow_vars, cookie_vars, extract_vars, build_vars>>

\* save_tls_fingerprint with its failure caught and the run going on
SaveTlsFingerprint_Swallow ==
  /\ mphase = "collected"
  /\ \/ /\ fp_rows' = Append(fp_rows, [id |-> lastrowid(fp_rows),
                                        ja3_hash |-> collected.ja3_hash,
                                        collected_at |-> "now"])
        /\ tls_fingerprint_id' = <<lastrowid(fp_rows)>>
     \/ UNCHANGED <<fp_rows, tls_fingerprint_id>>
  /\ mphase' = "fp_saved"
  /\ UNCHANGED <<collector, worker, future, collected, cookie_rows, exit_code>>
  /\ UNCHANGED <<crawl_vars, flow_vars, cookie_vars, extract_vars, build_vars>>

\* db.save_tls_fingerprint(...): the row is committed and its id returned,
\* or the call raises and main returns 1
SaveTlsFingerprint ==
  /\ mphase = "collected"
  /\ \/ /\ fp_rows' = Append(fp_rows, [id |-> lastrowid(fp_rows),
                                        ja3_hash |-> collected.ja3_hash,
                                        collected_at |-> "now"])
        /\ tls_fingerprint_id' = <<lastrowid(fp_rows)>>
        /\ mphase' = "fp_saved"
        /\ UNCHANGED exit_code
     \/ Return(1) /\ UNCHANGED <<fp_rows, tls_fingerprint_id>>
  /\ UNCHANGED <<collector, worker, future, collected, cookie_rows>>
  /\ UNCHANGED <<crawl_vars, flow_vars, cookie_vars, extract_vars, build_vars>>

\* db.save_cookies(tls_fingerprint_id=tls_fingerprint_id, ...)
DbSaveCookies ==
  /\ mphase = "fp_saved"
  /\ \/ /\ cookie_rows' =
             Append(cookie_rows,
                    [tls_fingerprint_id |-> tls_fingerprint_id,
                     cookie_type |->
                       IF collector = "pc" THEN "browser" ELSE "mobile",
                     cookie_data |-> collected.cookies,
                     collected_at |-> "now"])
        /\ mphase' = "cookies_saved"
        /\ UNCHANGED exit_code
     \/ Return(1) /\ UNCHANGED cookie_rows
  /\ UNCHANGED <<collector, worker, future, collected, fp_rows,
                 tls_fingerprint_id>>
  /\ UNCHANGED <<crawl_vars, flow_vars, cookie_vars, extract_vars, build_vars>>

\* the local files, then return 0; an exception gives return 1
SaveFiles ==
  /\ mphase = "cookies_saved"
  /\ \/ Return(0)
     \/ Return(1)
  /\ UNCHANGED <<collector, worker, future, collected, fp_rows, cookie_rows,
                 tls_fingerprint_id>>
  /\ UNCHANGED <<crawl_vars, flow_vars, cookie_vars, extract_vars, build_vars>>

\* the steps of the thread of main
MainSteps ==
  \/ Submit
  \/ FutureResult
  \/ FutureTimeout
  \/ ExecutorExit
  \/ StartTunnel
  \/ CreateDriver
  \/ CollectTlsFingerprint
  \/ MobileCollectCookies
  \/ SaveTlsFingerprint
  \/ DbSaveCookies
  \/ SaveFiles

MainNext ==
  \/ MainSteps
  \/ RunCollectionReturns
  \/ RunCollectionRaises

MainSpec == MainInit /\ [][MainNext]_vars

\* main's own steps are taken; whether the browser ever answers the pool
\* thread is not the program's to decide
FairMainSpec == MainSpec /\ WF_vars(MainSteps)

\* ------------------------------------------------- CookieCollector.collect
\* One behaviour is one call of collect().  The browser is external: each
\* call into it returns a value or raises.  A page's HTML is a set of text
\* chunks plus its length, as for the responses of the crawler.

HtmlAtoms ==
  {"product-list", "Product-List", "CAPTCHA", "Access Denied",
   "ERR_HTTP2_PROTOCOL_ERROR", "error-code", "location.reload",
   "bot detection", "Blocked", "<div>"}

\* str.lower() on a chunk or a pattern
html_lower(t) ==
  CASE t = "Product-List" -> "product-list"
    [] t = "CAPTCHA" -> "captcha"
    [] t = "Access Denied" -> "access denied"
    [] t = "ERR_HTTP2_PROTOCOL_ERROR" -> "err_http2_protocol_error"
    [] t = "ERR_" -> "err_"
    [] t = "Blocked" -> "blocked"
    [] OTHER -> t

\* <<p, t>> \in HtmlInfix: p is a substring of the chunk t
HtmlInfix ==
  {<<t, t>> : t \in HtmlAtoms \cup {html_lower(a) : a \in HtmlAtoms}}
    \cup {<<"ERR_", "ERR_HTTP2_PROTOCOL_ERROR">>,
          <<"err_", "err_http2_protocol_error">>}

\* what document.documentElement.outerHTML gave within the timeout: a text
\* (possibly empty), a timeout, or another exception
PageReads ==
  {[kind |-> "timeout", atoms |-> {}, length |-> 0],
   [kind |-> "raises", atoms |-> {}, length |-> 0],
   [kind |-> "html", atoms |-> {}, length |-> 0]}
    \cup {[kind |-> "html", atoms |-> S, length |-> n] :
            S \in {T \in SUBSET HtmlAtoms : Cardinality(T) <= MaxHtmlAtoms},
            n \in {MinBlockLen - 1, MinBlockLen}}

blocking_patterns ==
  {"location.reload", "captcha", "blocked", "Access Denied",
   "ERR_HTTP2_PROTOCOL_ERROR", "ERR_", "bot detection", "error-code"}

\* check_if_blocked comparing the patterns as written
check_if_blocked_CaseSensitive(read, on_search_url) ==
  \/ read.kind # "html"
  \/ read.length < MinBlockLen
  \/ \E p \in blocking_patterns : \E a \in read.atoms : <<p, a>> \in HtmlInfix
  \/ on_search_url /\ ~\E a \in read.atoms : <<"product-list", a>> \in HtmlInfix

\* check_if_blocked: TRUE is "blocked"
check_if_blocked(read, on_search_url) ==
  \/ read.kind # "html"
  \/ read.length < MinBlockLen
  \/ \E p \in blocking_patterns : \E a \in read.atoms :
       <<html_lower(p), html_lower(a)>> \in HtmlInfix
  \/ on_search_url /\ ~\E a \in read.atoms : <<"product-list", a>> \in HtmlInfix

non_flow_vars ==
  <<crawl_vars, cookie_vars, extract_vars, build_vars, main_vars>>

FlowInit ==
  /\ CrawlIdle
  /\ CookieIdle
  /\ ExtractIdle
  /\ BuildIdle
  /\ MainIdle
  /\ fphase = "start"
  /\ search_keyword \in {None, "kw"}
  /\ collect_max_pages \in 1..MaxNavPages
  /\ browser = "none"
  /\ close_calls = 0
  /\ main_page_cookies = <<>>
  /\ final_cookie_list = <<>>
  /\ search_blocked = <<>>
  /\ navs = <<>>
  /\ poll = NoData
  /\ last_check = NoData
  /\ failed = FALSE

\* an exception that leaves collect without its finally clause
Propagate_NoFinally == failed' = TRUE /\ fphase' = "raised"

\* an exception leaves the try block of collect: the finally clause runs
Propagate == failed' = TRUE /\ fphase' = "closing"

\* range(n) of a polling loop
poll_attempts(loop) ==
  CASE loop = "search" -> SearchAttempts
    [] loop = "button" -> ButtonFindAttempts
    [] loop = "content" -> ContentAttempts

\* a polling loop running one probe more than its range
poll_goes_on_OneMore(found, attempt, attempts) ==
  ~found /\ attempt < attempts + 1

\* the for loop goes on: no break yet and the range not used up
poll_goes_on(found, attempt, attempts) == ~found /\ attempt < attempts

\* a polling loop before its first probe; ret is what the function around
\* it returns when it returns after the loop
NewPoll(loop) ==
  [loop |-> loop, attempt |-> 0, found |-> FALSE, seen |-> FALSE, ret |-> <<>>]

\* the page loop going on after a blocked page
next_after_page_NoBreak(page_blocked, n, last) ==
  IF n < last THEN "nav" ELSE "final_cookies"

\* after check_if_blocked on page n of range(2, last + 1): break, next
\* page, or loop over
next_after_page(page_blocked, n, last) ==
  IF page_blocked THEN "final_cookies"
  ELSE IF n < last THEN "nav" ELSE "final_cookies"

\* navigate_to_next_page returned False: the page loop breaks
NavFailed ==
  /\ navs' = Append(navs, [page |-> Len(navs) + 2, nav_success |-> FALSE,
                           page_blocked |-> <<>>])
  /\ fphase' = "final_cookies"

\* perform_search returns the request headers its handler captured, or None
SearchReturns == {None, "headers"}

\* 1. launch(): uc.start, then browser.get('about:blank')
Launch ==
  /\ fphase = "start"
  /\ \/ browser' = "running" /\ fphase' = "launched" /\ UNCHANGED failed
     \/ browser' = "none" /\ Propagate
     \/ browser' = "running" /\ Propagate
  /\ UNCHANGED <<search_keyword, collect_max_pages, close_calls,
                 main_page_cookies, final_cookie_list, search_blocked, navs,
                 poll, last_check>>
  /\ UNCHANGED non_flow_vars

\* 2. navigate_to_coupang()
NavigateToCoupang ==
  /\ fphase = "launched"
  /\ \/ fphase' = "navigated" /\ UNCHANGED failed
     \/ Propagate
  /\ UNCHANGED <<search_keyword, collect_max_pages, browser, close_calls,
                 main_page_cookies, final_cookie_list, search_blocked, navs,
                 poll, last_check>>
  /\ UNCHANGED non_flow_vars

\* 2.5. get_cookies() on the main page; without a keyword they are the
\* cookie_list
GetMainCookies ==
  /\ fphase = "navigated"
  /\ main_page_cookies' = <<"main">>
  /\ IF search_keyword # None
     THEN fphase' = "search" /\ UNCHANGED final_cookie_list
     ELSE fphase' = "tls" /\ final_cookie_list' = <<"main">>
  /\ UNCHANGED <<search_keyword, collect_max_pages, browser, close_calls,
                 search_blocked, navs, poll, last_check, failed>>
  /\ UNCHANGED non_flow_vars

\* 3. perform_search up to its polling loop
PerformSearch ==
  /\ fphase = "search"
  /\ \/ poll' = NewPoll("search") /\ fphase' = "polling" /\ UNCHANGED failed
     \/ Propagate /\ UNCHANGED poll
  /\ UNCHANGED <<search_keyword, collect_max_pages, browser, close_calls,
                 main_page_cookies, final_cookie_list, search_blocked, navs,
                 last_check>>
  /\ UNCHANGED non_flow_vars

\* one pass of a polling loop: the probe finds the marker, does not find
\* it, or raises
ProbeMarker ==
  /\ fphase = "polling"
  /\ poll_goes_on(poll.found, poll.attempt, poll_attempts(poll.loop))
  /\ \/ poll' = [poll EXCEPT !.attempt = @ + 1, !.found = TRUE, !.seen = TRUE]
     \/ poll' = [poll EXCEPT !.attempt = @ + 1]
  /\ UNCHANGED <<fphase, search_keyword, collect_max_pages, browser,
                 close_calls, main_page_cookies, final_cookie_list,
                 search_blocked, navs, last_check, failed>>
  /\ UNCHANGED non_flow_vars

\* the code after a polling loop
AfterPoll ==
  /\ fphase = "polling"
  /\ ~poll_goes_on(poll.found, poll.attempt, poll_attempts(poll.loop))
  /\ CASE poll.loop = "search" ->
            /\ poll' \in {[poll EXCEPT !.ret = <<r>>] : r \in SearchReturns}
            /\ fphase' = "check1"
            /\ UNCHANGED navs
       [] poll.loop = "button" ->
            IF poll.found THEN fphase' = "click" /\ UNCHANGED <<navs, poll>>
            ELSE NavFailed /\ poll' = [poll EXCEPT !.ret = <<FALSE>>]
       [] poll.loop = "content" ->
            \/ /\ navs' = Append(navs, [page |-> Len(navs) + 2,
                                         nav_success |-> TRUE,
                                         page_blocked |-> <<>>])
               /\ fphase' = "checkN"
               /\ poll' = [poll EXCEPT !.ret = <<TRUE>>]
            \/ NavFailed /\ poll' = [poll EXCEPT !.ret = <<FALSE>>]
  /\ UNCHANGED <<search_keyword, collect_max_pages, browser, close_calls,
                 main_page_cookies, final_cookie_list, search_blocked,
                 last_check, failed>>
  /\ UNCHANGED non_flow_vars

\* 3.5. check_if_blocked() on search page 1
CheckSearchPage ==
  /\ fphase = "check1"
  /\ last_check' \in {[read |-> r, on_search_url |-> u,
                       result |-> check_if_blocked(r, u)] :
                        r \in PageReads, u \in BOOLEAN}
  /\ search_blocked' = <<last_check'.result>>
  /\ IF last_check'.result
     THEN final_cookie_list' = main_page_cookies /\ fphase' = "tls"
     ELSE /\ UNCHANGED final_cookie_list
          /\ fphase' = IF collect_max_pages > 1 THEN "nav" ELSE "final_cookies"
  /\ UNCHANGED <<search_keyword, collect_max_pages, browser, close_calls,
                 main_page_cookies, navs, poll, failed>>
  /\ UNCHANGED non_flow_vars

\* navigate_to_next_page up to the button loop; an exception inside it
\* makes it return False
NavigateToNextPage ==
  /\ fphase = "nav"
  /\ \/ poll' = NewPoll("button") /\ fphase' = "polling" /\ UNCHANGED navs
     \/ NavFailed /\ UNCHANGED poll
  /\ UNCHANGED <<search_keyword, collect_max_pages, browser, close_calls,
                 main_page_cookies, final_cookie_list, search_blocked,
                 last_check, failed>>
  /\ UNCHANGED non_flow_vars

\* the click on the next button, then the content loop
ClickNext ==
  /\ fphase = "click"
  /\ \/ poll' = NewPoll("content") /\ fphase' = "polling" /\ UNCHANGED navs
     \/ NavFailed /\ UNCHANGED poll
  /\ UNCHANGED <<search_keyword, collect_max_pages, browser, close_calls,
                 main_page_cookies, final_cookie_list, search_blocked,
                 last_check, failed>>
  /\ UNCHANGED non_flow_vars

\* check_if_blocked() on the page just navigated to
CheckNextPage ==
  /\ fphase = "checkN"
  /\ last_check' \in {[read |-> r, on_search_url |-> u,
                       result |-> check_if_blocked(r, u)] :
                        r \in PageReads, u \in BOOLEAN}
  /\ navs' = [navs EXCEPT ![Len(navs)].page_blocked = <<last_check'.result>>]
  /\ fphase' = next_after_page(last_check'.result, Len(navs) + 1,
                               collect_max_pages)
  /\ UNCHANGED <<search_keyword, collect_max_pages, browser, close_calls,
                 main_page_cookies, final_cookie_list, search_blocked, poll,
                 failed>>
  /\ UNCHANGED non_flow_vars

\* get_cookies() after the page loop
GetFinalCookies ==
  /\ fphase = "final_cookies"
  /\ final_cookie_list' = <<"search", Len(navs)>>
  /\ fphase' = "tls"
  /\ UNCHANGED <<search_keyword, collect_max_pages, browser, close_calls,
                 main_page_cookies, search_blocked, navs, poll, last_check,
                 failed>>
  /\ UNCHANGED non_flow_vars

\* 4.-7. tls_extractor.extract(), format_cookie_list, generate_ja3_hash
ExtractAndFormat ==
  /\ fphase = "tls"
  /\ \/ fphase' = "assemble" /\ UNCHANGED failed
     \/ Propagate
  /\ UNCHANGED <<search_keyword, collect_max_pages, browser, close_calls,
                 main_page_cookies, final_cookie_list, search_blocked, navs,
                 poll, last_check>>
  /\ UNCHANGED non_flow_vars

\* the result dict and the request-header log file, then return result
AssembleResult ==
  /\ fphase = "assemble"
  /\ \/ fphase' = "closing" /\ UNCHANGED failed
     \/ Propagate
  /\ UNCHANGED <<search_keyword, collect_max_pages, browser, close_calls,
                 main_page_cookies, final_cookie_list, search_blocked, navs,
                 poll, last_check>>
  /\ UNCHANGED non_flow_vars

\* finally: await self.close(); browser.stop() is called on a browser that
\* was launched, and what it raises is swallowed
Close ==
  /\ fphase = "closing"
  /\ close_calls' = close_calls + 1
  /\ browser' = IF browser = "running" THEN "stopped" ELSE browser
  /\ fphase' = IF failed THEN "raised" ELSE "returned"
  /\ UNCHANGED <<search_keyword, collect_max_pages, main_page_cookies,
                 final_cookie_list, search_blocked, navs, poll, last_check,
                 failed>>
  /\ UNCHANGED non_flow_vars

FlowNext ==
  \/ Launch
  \/ NavigateToCoupang
  \/ GetMainCookies
  \/ PerformSearch
  \/ ProbeMarker
  \/ AfterPoll
  \/ CheckSearchPage
  \/ NavigateToNextPage
  \/ ClickNext
  \/ CheckNextPage
  \/ GetFinalCookies
  \/ ExtractAndFormat
  \/ AssembleResult
  \/ Close

FlowSpec == FlowInit /\ [][FlowNext]_vars

\* ----------------------------------------------------------------- claims

\* the loop is over: no session.get for a page follows
LoopOver == pc \in {"finalize", "summary", "returned"}

\* minimum length of a page's response below which it is blocked
MinLen(v, n) ==
  IF v = "pc" THEN (IF n = 1 THEN MinLenHtml ELSE MinLenRsc) ELSE MinLenMobile

HasBlockMarker(c) == Contains("ERR_", c) \/ Contains("location.reload", c)

\* a recorded page whose size is below its page's minimum
Undersized(i) ==
  /\ "size" \in DOMAIN page_results[i]
  /\ page_results[i].size < MinLen(variant, i)

\* C1: once a page's response is classified blocked, a failed PageResult for
\* that page is recorded and the loop is over, so that no later page is ever
\* requested; a recorded undersized page is the last one requested, e.g. a
\* 3-page run with an undersized page 2 ends with 2 PageResults (success,
\* failed), result false and requests 1, 2 only.
C1_BlockedStopsRun ==
  /\ [](\A i \in DOMAIN page_results :
          Undersized(i) =>
            /\ i = Len(page_results)
            /\ ~page_results[i].success
            /\ requests = [j \in 1..i |-> j]
            /\ LoopOver
            /\ (pc = "returned" => result = <<FALSE>>))
  /\ [][/\ (pc = "validate" /\ Validate(variant, content, page_num).is_blocked)
             => /\ page_results' = Append(page_results, Last(page_results'))
                /\ Last(page_results').page = page_num
                /\ ~Last(page_results').success
                /\ pc' = "finalize"
        /\ LoopOver => (LoopOver' /\ requests' = requests)]_vars

C1_Witness ==
  /\ pc = "returned"
  /\ max_pages = 3
  /\ Len(page_results) = 2
  /\ page_results[1].success
  /\ Undersized(2)
  /\ requests = <<1, 2>>
  /\ result = <<FALSE>>

\* C2: the returned flag is true exactly when max_pages pages were attempted
\* and every attempted page succeeded.
C2_ResultIffAllPages ==
  pc = "returned" =>
    (result = <<TRUE>> <=>
       /\ Len(page_results) = max_pages
       /\ \A i \in DOMAIN page_results : page_results[i].success)

C2_Witness ==
  /\ pc = "returned"
  /\ max_pages = 3
  /\ result = <<TRUE>>
  /\ Len(page_results) = 3

\* C3: pages are requested in the order 1, 2, ..., each once, and page n+1 is
\* requested only when the PageResults of pages 1..n are recorded.
C3_SequentialRequests ==
  /\ requests = [j \in 1..Len(requests) |-> j]
  /\ \A i \in DOMAIN page_results : page_results[i].page = i
  /\ Len(page_results) <= Len(requests)
  /\ Len(requests) <= Len(page_results) + 1
  /\ (Len(requests) = Len(page_results) + 1 <=> pc = "validate")
  /\ (pc = "loop" => page_num = Len(page_results) + 1)
  /\ (pc = "validate" => page_num = Len(requests))

C3_Witness ==
  /\ pc = "validate"
  /\ requests = <<1, 2, 3>>
  /\ Len(page_results) = 2
  /\ ~page_results[1].success

\* C4: a response that fails validation without being classified blocked gets
\* a failed PageResult and the loop goes on to the next page when there is one.
C4_ValidationFailureContinues ==
  [][(/\ pc = "validate"
      /\ ~Validate(variant, content, page_num).has_products
      /\ ~Validate(variant, content, page_num).is_blocked)
       => /\ page_results' = Append(page_results, Last(page_results'))
          /\ Last(page_results').page = page_num
          /\ ~Last(page_results').success
          /\ IF page_num < max_pages
             THEN pc' = "loop" /\ page_num' = page_num + 1
             ELSE pc' = "finalize"]_vars

C4_Witness ==
  /\ Len(requests) >= 2
  /\ ~page_results[1].success
  /\ "size" \in DOMAIN page_results[1]
  /\ ~Undersized(1)

\* C5: an exception of the request is caught and recorded as exactly one
\* failed PageResult carrying the error message, and it ends the loop: the
\* page is not retried and no later page is requested.
C5_TransportErrorStops ==
  /\ pc = "raised" => requests = <<>>
  /\ Len(requests) = Len(page_results) + (IF pc = "validate" THEN 1 ELSE 0)
  /\ \A i \in DOMAIN page_results :
       /\ page_results[i].page = i
       /\ "error" \in DOMAIN page_results[i] =>
            /\ i = Len(page_results)
            /\ ~page_results[i].success
            /\ page_results[i].error \in Errors
            /\ requests = [j \in 1..i |-> j]
            /\ LoopOver

C5_Witness ==
  /\ pc = "returned"
  /\ Len(page_results) = 2
  /\ page_results[1].success
  /\ "error" \in DOMAIN page_results[2]
  /\ max_pages = 3

\* id of the fingerprint row the run loaded
LoadedFingerprintId ==
  IF variant = "pc" THEN Last(tls_fingerprints).id ELSE data.tls_fingerprint_id

\* C6: every run that loaded a fingerprint ends with a cookie row written that
\* holds the session's final cookie set, carries the crawled/replay tag and
\* is linked to the loaded fingerprint.
C6_FinalCookiesPersisted ==
  (pc = "returned" /\ data # NoData) =>
    \E i \in DOMAIN cookies :
      /\ cookies[i].cookie_type \in {"crawled", "replay"}
      /\ cookies[i].tls_fingerprint_id = LoadedFingerprintId
      /\ cookies[i].cookie_data = final_cookies(jar)

C8_RunReturns ==
  /\ [](pc # "raised")
  /\ <>(/\ pc = "returned"
        /\ result \in {<<TRUE>>, <<FALSE>>}
        /\ Len(page_results) = Len(requests)
        /\ \A i \in DOMAIN page_results :
             page_results[i].page = requests[i])

\* C9: on every page, a response shorter than the minimum length of its page
\* number is classified blocked, and so is a response that contains a block
\* marker, whatever its length.
C9_BlockDetection ==
  pc = "validate" =>
    ((content.length < MinLen(variant, page_num) \/ HasBlockMarker(content))
       => Validate(variant, content, page_num).is_blocked)

\* the content marker of a page, per crawler
HasContentMarker(v, c, n) ==
  IF v = "pc"
  THEN IF n = 1
       THEN Contains("product-list", c) \/ Contains("search-product", c)
       ELSE \/ ContainsLower("\"product", c)
            \/ Contains("search-product", c)
            \/ Contains("srp_", c)
  ELSE ContainsLower("product", c) \/ ContainsLower("search", c)

C11_OneTraceId ==
  /\ [](/\ (traceid = <<>> <=> calls = <<>>)
        /\ \A i \in DOMAIN calls :
             /\ Params(calls[i].url, "traceId") = {traceid[1]}
             /\ Params(calls[i].url, "page")
                  = IF i = 1 THEN {} ELSE {ToString(i)})
  /\ [][/\ traceid # <<>> => traceid' = traceid
        /\ (traceid = <<>> /\ traceid' # <<>>)
             => (page_num = 1 /\ traceid' = <<generate_traceid(now)>>)]_vars

C11_Witness ==
  /\ Len(calls) = 3
  /\ variant = "pc"
  /\ traceid = <<"x2qxvl">>
  /\ Params(calls[1].url, "traceId") = Params(calls[3].url, "traceId")
  /\ Params(calls[3].url, "page") = {"3"}
  /\ Params(calls[3].url, "_rsc") # {}

\* C12: every page request of a run is issued with the configuration built
\* from the loaded fingerprint before the first request, its JA3 string as
\* well as the auxiliary knobs, and all pages of the run use the same one.
C12_RequestsCarryReplayConfig ==
  \A i \in DOMAIN calls :
    /\ DOMAIN calls[i].config = {"ja3", "extra_fp"}
    /\ calls[i].config.extra_fp = build_extra_fp(data.tls_data)
    /\ calls[i].config.ja3 = force_tls12_ja3(build_ja3_string(data.tls_data))
    /\ calls[i].config = calls[1].config

\* index of the first record of s named n, and the last record named n
FirstIdx(s, n) ==
  CHOOSE i \in DOMAIN s : s[i].name = n /\ \A j \in 1..(i - 1) : s[j].name # n

LastNamed(s, n) ==
  s[CHOOSE i \in DOMAIN s :
      s[i].name = n /\ \A j \in (i + 1)..Len(s) : s[j].name # n]

\* indices of incoming at which a name not held by existing first occurs
Fresh(existing, incoming) ==
  {i \in DOMAIN incoming :
     /\ incoming[i].name \notin Names(existing)
     /\ \A j \in 1..(i - 1) : incoming[j].name # incoming[i].name}

NoRepeatedName(s) ==
  \A i, j \in DOMAIN s : s[i].name = s[j].name => i = j

\* C13: merge_cookie_lists(existing, incoming) replaces, for every incoming
\* name that existing holds, the first existing record of that name at its
\* position by the last incoming record of that name, leaves every other
\* existing record at its position with its content, and appends the other
\* incoming names at the end in the order of their first occurrence.
C13_MergeReplacesOrAppends ==
  cphase = "done" =>
    LET A == existing_cookies
        B == new_cookies
        M == cookies_data
        fresh == Fresh(A, B)
    IN /\ Len(M) = Len(A) + Cardinality(fresh)
       /\ \A i \in DOMAIN A :
            M[i] = IF A[i].name \in Names(B) /\ i = FirstIdx(A, A[i].name)
                   THEN LastNamed(B, A[i].name) ELSE A[i]
       /\ \A i \in fresh :
            M[Len(A) + Cardinality({j \in fresh : j <= i})]
              = LastNamed(B, B[i].name)
       /\ \A n \in Names(A) \cap Names(B) :
            \E i \in DOMAIN M : M[i] = LastNamed(B, n)

C13_Witness ==
  /\ cphase = "done"
  /\ Len(existing_cookies) = 1
  /\ existing_cookies[1].name = "sid"
  /\ Len(new_cookies) = 2
  /\ new_cookies[1].name = "sid"
  /\ new_cookies[1] # existing_cookies[1]
  /\ new_cookies[2].name = "PCID"
  /\ cookies_data = <<new_cookies[1], new_cookies[2]>>

\* C14 as stated: merge(X, X) equals X for every cookie sequence X, those
\* in which a name occurs more than once included.
C14_MergeSelfIsIdentity ==
  (cphase = "done" /\ new_cookies = existing_cookies) =>
    cookies_data = existing_cookies

\* C14 amended: merge(X, X) is X with the first record of every name replaced
\* by the last record of that name; it equals X when no name is repeated in X.
C14_MergeSelfKeepsLast ==
  (cphase = "done" /\ new_cookies = existing_cookies) =>
    LET X == existing_cookies
    IN /\ cookies_data =
            [i \in DOMAIN X |->
               IF i = FirstIdx(X, X[i].name) THEN LastNamed(X, X[i].name)
               ELSE X[i]]
       /\ NoRepeatedName(X) => cookies_data = X

C14_Witness ==
  /\ cphase = "done"
  /\ new_cookies = existing_cookies
  /\ Len(existing_cookies) = 2
  /\ existing_cookies[1].name = existing_cookies[2].name
  /\ existing_cookies[1] # existing_cookies[2]
  /\ cookies_data = <<existing_cookies[2], existing_cookies[2]>>

\* C15: merging the same incoming list again changes nothing:
\* merge(merge(A, B), B) = merge(A, B), repeated names inside A or B included.
C15_RemergeChangesNothing ==
  cphase = "done" =>
    merge_cookie_lists(cookies_data, new_cookies) = cookies_data

C15_Witness ==
  /\ cphase = "done"
  /\ ~NoRepeatedName(existing_cookies)
  /\ ~NoRepeatedName(new_cookies)
  /\ new_cookies[1] # new_cookies[2]
  /\ cookies_data # existing_cookies
  /\ Len(cookies_data) = 2

\* two incoming lists with the same last record per name and the same order
\* of first occurrence of the names existing does not hold
SameForMerge(existing, b1, b2) ==
  /\ Names(b1) = Names(b2)
  /\ \A n \in Names(b1) : LastNamed(b1, n) = LastNamed(b2, n)
  /\ \A i, j \in Fresh(existing, b1) :
       i < j => \E k, l \in Fresh(existing, b2) :
                  /\ k < l
                  /\ b2[k].name = b1[i].name
                  /\ b2[l].name = b1[j].name

\* C16: when incoming holds several records of one name the merged list
\* holds the last of them for that name, and the order of incoming matters in
\* no other way: two incoming lists with the same last record per name and
\* the same order of first occurrence of the new names give the same result.
C16_LaterIncomingWins ==
  cphase = "done" =>
    LET A == existing_cookies
        B == new_cookies
        M == cookies_data
        R == {B[i] : i \in DOMAIN B}
    IN /\ \A n \in Names(B) : M[FirstIdx(M, n)] = LastNamed(B, n)
       /\ \A B2 \in SeqsUpTo(R, Len(B)) :
            SameForMerge(A, B, B2) => merge_cookie_lists(A, B2) = M

C16_Witness ==
  /\ cphase = "done"
  /\ existing_cookies = <<>>
  /\ Len(new_cookies) = 2
  /\ new_cookies[1].name = new_cookies[2].name
  /\ new_cookies[1].value # new_cookies[2].value
  /\ cookies_data = <<new_cookies[2]>>

\* C17: the cookie set of a collection holds at most one record per name,
\* after collecting from the driver's list and the document.cookie string and
\* after every merge.
C17_OneRecordPerName == NoRepeatedName(cookies_data)

\* the list the latest collection produced
Collected == IF cphase = "merge" THEN new_cookies ELSE cookies_data

\* C18: every adapter yields a canonical record whose domain is the raw
\* cookie's or, when that is missing, the site's cookie domain, and whose
\* path is the raw cookie's or '/'; secure defaults to false for WebDriver
\* cookies and is true for script-observed ones.
C18_AdaptersApplyDefaults ==
  /\ (source = "webdriver" /\ cphase \in {"search", "merge"}) =>
       LET wd == IF raw.wd.ok THEN raw.wd.cookies ELSE <<>>
       IN \A i \in DOMAIN Collected :
            IF i <= Len(wd)
            THEN /\ Collected[i].domain = Get(wd[i], "domain", ".coupang.com")
                 /\ Collected[i].path = Get(wd[i], "path", "/")
                 /\ Collected[i].secure = Get(wd[i], "secure", FALSE)
            ELSE /\ Collected[i].domain = ".coupang.com"
                 /\ Collected[i].path = "/"
                 /\ Collected[i].secure = TRUE
  /\ (source = "nodriver" /\ cphase = "done") =>
       \A j \in DOMAIN raw.nd :
         \E i \in DOMAIN cookies_data :
           /\ cookies_data[i].name = raw.nd[j].f.name
           /\ cookies_data[i].value = raw.nd[j].f.value
           /\ cookies_data[i].domain = Get(raw.nd[j].f, "domain", ".coupang.com")
           /\ cookies_data[i].path = Get(raw.nd[j].f, "path", "/")

\* C19: extract never raises, and for every behaviour of the browser and of
\* the oracle page the model it returns holds tls_data and http2_data that
\* the caller uses, deriving the JA3 hash and reading the Akamai fingerprint,
\* without an error.
C19_UsableModel ==
  /\ xphase \in {"extracted", "done", "raised"} =>
       {"tls_data", "http2_data"} \subseteq DOMAIN tls_info
  /\ xphase # "raised"

\* the oracle response is empty, malformed or lacks a required sub-field
Incomplete(o) ==
  \/ o.kind \in {"empty", "not_json"}
  \/ /\ o.kind = "json"
     /\ \/ o.value.t # "dict"
        \/ "tls" \notin DOMAIN o.value.v
        \/ o.value.v.tls.t # "dict"
        \/ Get(o.value.v.tls.v, "cipher_suites", <<>>) = <<>>
        \/ Get(o.value.v.tls.v, "extensions", <<>>) = <<>>

\* C20: for an oracle response that is empty, malformed or without a tls
\* section, cipher suites or extensions, extract returns exactly the fallback
\* profile, never a partially filled live model.
C20_FallbackWhenIncomplete ==
  (xphase \in {"extracted", "done", "raised"} /\ Incomplete(oracle))
    => tls_info = get_fallback_data

\* C21: when the oracle supplied a JA3 text and hash, build_ja3_string returns
\* the stored text unchanged and the hash handed on to be stored with the
\* fingerprint is the oracle's hash, not a locally rebuilt one.
C21_AuthoritativeJa3Used ==
  (/\ xphase = "done"
   /\ Get(tls_info.tls_data, "ja3_hash", "") # "")
    => /\ build_ja3_string(tls_info.tls_data) = tls_info.tls_data.ja3_text
       /\ ja3_hash = <<tls_info.tls_data.ja3_hash>>

\* str(id) of the entries that have an id and no GREASE name, in list order
wanted_ids(items) ==
  LET kept == SelectSeq(items, LAMBDA it :
                "id" \in DOMAIN it /\ ~IsGrease(Get(it, "name", "")))
  IN [i \in DOMAIN kept |-> ToString(kept[i].id)]

\* ids of the named groups the curve map knows, GREASE left out, in order
wanted_groups(groups) ==
  LET kept == SelectSeq(groups, LAMBDA g :
                ~IsGrease(g) /\ g \in DOMAIN curve_map)
  IN [i \in DOMAIN kept |-> curve_map[kept[i]]]

\* the model has no authoritative JA3 text: the JA3 string is built
Rebuilt(tls_data) == Get(tls_data, "ja3_text", <<>>) = <<>>

\* C22: a locally built JA3 string has five fields: the version, the cipher
\* ids, the extension ids and the group ids, each hyphen-joined in list order
\* and holding every entry that is not GREASE, an entry of id 0 included,
\* then the constant 0.
C22_BuiltJa3Fields ==
  (jphase = "built" /\ Rebuilt(tls_model)) =>
    /\ Len(replay.ja3) = 5
    /\ replay.ja3[1] \in {"771", "772"}
    /\ replay.ja3[2] =
         join_dash(wanted_ids(Get(tls_model, "cipher_suites", <<>>)))
    /\ replay.ja3[3] =
         join_dash(wanted_ids(Get(tls_model, "extensions", <<>>)))
    /\ replay.ja3[4] =
         join_dash(wanted_groups(Get(tls_model, "supported_groups", <<>>)))
    /\ replay.ja3[5] = "0"

\* a model without its GREASE-named cipher suites and extensions
WithoutGrease(tls_data) ==
  LET named(it) == ~IsGrease(Get(it, "name", ""))
  IN [tls_data EXCEPT !.cipher_suites = SelectSeq(@, named),
                      !.extensions = SelectSeq(@, named)]

\* C23: no entry with a GREASE name contributes to a derived output: the
\* JA3 hash the collector derives is the hash of the model without its GREASE
\* entries, the JA3 string built from the model holds none of their ids, and
\* the derived http2 settings map has no GREASE-named key.
C23_GreaseExcluded ==
  xphase = "done" =>
    /\ ja3_hash = generate_ja3_hash(WithoutGrease(tls_info.tls_data)).value
    /\ build_ja3_string(tls_info.tls_data)
         = build_ja3_string(WithoutGrease(tls_info.tls_data))
    /\ \A k \in DOMAIN tls_info.http2_data.settings : ~IsGrease(k)

\* the fields of the JA3 string of a model: the version of its tls_version,
\* then its cipher, extension and group ids, then the constant 0
ja3_of(tls_data) ==
  <<IF Get(tls_data, "tls_version", "TLS 1.3") = "TLS 1.3" THEN "772" ELSE "771",
    join_dash(wanted_ids(Get(tls_data, "cipher_suites", <<>>))),
    join_dash(wanted_ids(Get(tls_data, "extensions", <<>>))),
    join_dash(wanted_groups(Get(tls_data, "supported_groups", <<>>))),
    "0">>

\* id:value of the six SETTINGS of a settings map, then the fixed tokens
akamai_of(settings) ==
  "1:" \o ToString(settings.SETTINGS_HEADER_TABLE_SIZE)
  \o ";2:" \o ToString(settings.SETTINGS_ENABLE_PUSH)
  \o ";3:" \o ToString(settings.SETTINGS_MAX_CONCURRENT_STREAMS)
  \o ";4:" \o ToString(settings.SETTINGS_INITIAL_WINDOW_SIZE)
  \o ";5:" \o ToString(settings.SETTINGS_MAX_FRAME_SIZE)
  \o ";6:" \o ToString(settings.SETTINGS_MAX_HEADER_LIST_SIZE)
  \o "|15663105|0|m,a,s,p"

\* C24: the fallback profile is consistent with itself: the JA3 hash derived
\* for it is the digest of the JA3 string of its own version and lists, and
\* its Akamai fingerprint is the id:value formatting of its own six SETTINGS.
C24_FallbackConsistent ==
  (xphase = "done" /\ tls_info = get_fallback_data) =>
    /\ ja3_hash = <<md5(join_comma(ja3_of(tls_info.tls_data)))>>
    /\ tls_info.http2_data.akamai_fingerprint
         = akamai_of(tls_info.http2_data.settings)

\* the model's version is TLS 1.3 (the default of a model without the key)
IsTls13(tls_data) == Get(tls_data, "tls_version", "TLS 1.3") = "TLS 1.3"

\* C25: for a model of version TLS 1.3 the downgraded JA3 string has the
\* version field 771, and its cipher, extension, group and point-format
\* fields are those of the string before the downgrade.
C25_DowngradeKeepsFields ==
  (jphase = "built" /\ IsTls13(tls_model)) =>
    /\ replay.tls12[1] = "771"
    /\ Len(replay.tls12) = Len(replay.ja3)
    /\ \A i \in 2..Len(replay.ja3) : replay.tls12[i] = replay.ja3[i]

C25_Witness ==
  /\ jphase = "built"
  /\ IsTls13(tls_model)
  /\ Rebuilt(tls_model)
  /\ replay.ja3[1] = "772"
  /\ replay.ja3[2] = "4865-4867"
  /\ replay.tls12 = <<"771", "4865-4867", "10", "29-23", "0">>

\* C26: building the replay configuration from a stored model never fails,
\* whatever the entries of its lists are.
C26_BuildNeverRaises == jphase # "raised"

\* the three lists of a model, an absent list being the empty one
ListsOf(tls_data) ==
  <<Get(tls_data, "cipher_suites", <<>>), Get(tls_data, "extensions", <<>>),
    Get(tls_data, "supported_groups", <<>>)>>

\* every cipher and extension entry has an id and a name, every group is a
\* name, and none of them is a GREASE value
WellFormed(tls_data) ==
  LET entry_ok(it) ==
        /\ is_dict(it)
        /\ DOMAIN it = {"id", "name"}
        /\ it.name # None
        /\ it.id # 2570
      cipher_suites == Get(tls_data, "cipher_suites", <<>>)
      extensions == Get(tls_data, "extensions", <<>>)
      supported_groups == Get(tls_data, "supported_groups", <<>>)
  IN /\ \A i \in DOMAIN cipher_suites : entry_ok(cipher_suites[i])
     /\ \A i \in DOMAIN extensions : entry_ok(extensions[i])
     /\ \A i \in DOMAIN supported_groups :
          supported_groups[i] \notin {None, Dict, "GREASE"}

\* the two lists generate_ja3_hash indexes are present
HasHashedLists(tls_data) ==
  {"cipher_suites", "extensions"} \subseteq DOMAIN tls_data

\* C27: two well-formed models of the same version that differ in an element
\* of a list, or in the order of a list, have different JA3 strings and
\* different JA3 hashes.
C27_Ja3Injective ==
  (jphase = "built" /\ Rebuilt(tls_model) /\ WellFormed(tls_model)) =>
    \A other \in StoredTlsData :
      ( /\ Rebuilt(other)
        /\ WellFormed(other)
        /\ IsTls13(other) = IsTls13(tls_model)
        /\ ListsOf(other) # ListsOf(tls_model) ) =>
          /\ build_ja3_string(other) # replay.ja3
          /\ (HasHashedLists(other) /\ HasHashedLists(tls_model)) =>
               generate_ja3_hash(other) # generate_ja3_hash(tls_model)

\* C28: every cookie row a run writes carries the id of a fingerprint row
\* the same run wrote before it; a run whose save_tls_fingerprint failed
\* writes no cookie row.
C28_CookieRowAfterFingerprintRow ==
  \A i \in DOMAIN cookie_rows :
    cookie_rows[i].collected_at = "now" =>
      /\ cookie_rows[i].tls_fingerprint_id # <<>>
      /\ \E j \in DOMAIN fp_rows :
           /\ fp_rows[j].collected_at = "now"
           /\ fp_rows[j].id = cookie_rows[i].tls_fingerprint_id[1]

C28_Witness ==
  /\ exit_code = <<0>>
  /\ Len(fp_rows) = 3
  /\ Len(cookie_rows) = 3
  /\ cookie_rows[3].collected_at = "now"
  /\ cookie_rows[3].tls_fingerprint_id = <<3>>
  /\ fp_rows[3].id = 3

\* C29: once the overall timeout has fired, main returns the failure code.
C29_TimeoutReturnsFailure == (mphase = "timed_out") ~> (exit_code = <<1>>)

\* C30: the recorded pages are 1..k in order with k <= max_pages, once the
\* loop is over there is one PageResult per session.get of the loop, and a
\* step either leaves page_results alone or appends one entry to it.
C30_PageResultsAppendOnly ==
  /\ [](/\ Len(page_results) <= max_pages
        /\ \A i \in DOMAIN page_results : page_results[i].page = i
        /\ LoopOver => Len(page_results) = Len(requests))
  /\ [][\/ page_results' = page_results
        \/ /\ Len(page_results') = Len(page_results) + 1
           /\ SubSeq(page_results', 1, Len(page_results)) = page_results]_vars

C30_Witness ==
  /\ variant = "pc"
  /\ pc = "returned"
  /\ requests = <<1, 2, 3>>
  /\ Len(page_results) = 3
  /\ ~page_results[2].success
  /\ page_results[3].success

\* C31: force_tls12_ja3 leaves a version field 771 alone, applied to its own
\* result it changes nothing, and a string that has not exactly five fields
\* comes back unchanged.
C31_DowngradeOneWayIdempotent ==
  jphase = "downgraded" =>
    /\ replay.ja3[1] = "771" => replay.tls12[1] = "771"
    /\ replay.tls12[1] # "772" \/ Len(replay.ja3) # 5
    /\ replay.again = replay.tls12
    /\ Len(replay.ja3) # 5 => replay.tls12 = replay.ja3

C31_Witness ==
  /\ jphase = "downgraded"
  /\ replay.ja3 = <<"772", "4865-4866", "772", "771">>
  /\ replay.tls12 = replay.ja3

\* what a caller reads as "found" in the value a function returned
ReadsAsFound(loop, value) ==
  IF loop = "search" THEN value # None ELSE value = TRUE

LatestHasNoCookieRow ==
  /\ tls_fingerprints # <<>>
  /\ \A i \in DOMAIN cookies :
       cookies[i].tls_fingerprint_id # tls_fingerprints[Len(tls_fingerprints)].id

\* C33: when storage holds no fingerprint, or its latest fingerprint has no
\* cookie row, curlcffi.py's crawl_multipage returns False right after the
\* load: no session.get was issued, no PageResult was appended, no save was
\* attempted, and no step of the run changes the storage tables.
C33_NothingLoadedNothingDone ==
  /\ []((variant = "pc" /\ pc # "start"
           /\ (tls_fingerprints = <<>> \/ LatestHasNoCookieRow)) =>
          /\ pc = "returned"
          /\ result = <<FALSE>>
          /\ data = NoData
          /\ requests = <<>>
          /\ calls = <<>>
          /\ now = StartMs
          /\ page_results = <<>>
          /\ save_outcome = "none")
  /\ [][(variant = "pc" /\ (tls_fingerprints = <<>> \/ LatestHasNoCookieRow)) =>
          (cookies' = cookies /\ tls_fingerprints' = tls_fingerprints)]_vars

C33_Witness ==
  /\ variant = "pc"
  /\ pc = "returned"
  /\ LatestHasNoCookieRow
  /\ cookies # <<>>
  /\ result = <<FALSE>>

\* a navigation attempt that lets the page loop go on
WentOn(nav) == nav.nav_success /\ nav.page_blocked = <<FALSE>>

\* C34: a collection with a search keyword that returns has checked search
\* page 1; if it was blocked, no navigation was attempted and the cookie
\* set of the result is the main-page set; otherwise the navigation
\* attempts are for pages 2, 3, ... in order, none follows a failed or
\* blocked one, they reach maxPages unless one failed or was blocked, and
\* the cookie set of the result is the one read after the last attempt.
C34_SearchCookies ==
  (fphase = "returned" /\ ~failed /\ search_keyword # None) =>
    /\ search_blocked # <<>>
    /\ search_blocked = <<TRUE>> =>
         /\ navs = <<>>
         /\ final_cookie_list = main_page_cookies
    /\ search_blocked = <<FALSE>> =>
         /\ Len(navs) <= collect_max_pages - 1
         /\ \A i \in DOMAIN navs : navs[i].page = i + 1
         /\ \A i \in 1..(Len(navs) - 1) : WentOn(navs[i])
         /\ Len(navs) < collect_max_pages - 1 => ~WentOn(navs[Len(navs)])
         /\ final_cookie_list = <<"search", Len(navs)>>

C34_Witness ==
  /\ fphase = "returned"
  /\ ~failed
  /\ search_blocked = <<FALSE>>
  /\ collect_max_pages = 3
  /\ Len(navs) = 1
  /\ navs[1].page_blocked = <<TRUE>>
  /\ final_cookie_list = <<"search", 1>>

\* collect is over: it returned its result or let an exception out
CollectOver == fphase \in {"returned", "raised"}

\* C35: collect is left only through its finally clause: when it has
\* returned or raised, close() ran exactly once and browser.stop() was
\* called on every browser that launch() had assigned.
C35_CloseOnEveryPath ==
  /\ [](CollectOver => close_calls = 1 /\ browser # "running")
  /\ [][(~CollectOver /\ CollectOver') =>
          (fphase = "closing" /\ close_calls' = close_calls + 1)]_vars

C35_Witness ==
  /\ fphase = "raised"
  /\ navs # <<>>
  /\ browser = "stopped"
  /\ close_calls = 1

\* the page texts of the model that hold one of the blocking patterns,
\* whatever their letter case
BlockingAtoms ==
  {"CAPTCHA", "Access Denied", "ERR_HTTP2_PROTOCOL_ERROR", "error-code",
   "location.reload", "bot detection", "Blocked"}

\* C36: check_if_blocked fails closed: it reports blocked when the page
\* read timed out or raised, when the HTML is empty or shorter than 5000
\* characters, when the HTML holds a blocking pattern in any letter case,
\* and when the page is a search page without the product-list marker; it
\* reports not blocked in no other case.
C36_FailClosed ==
  last_check # NoData =>
    last_check.result =
      \/ last_check.read.kind # "html"
      \/ last_check.read.length < 5000
      \/ last_check.read.atoms \cap BlockingAtoms # {}
      \/ last_check.on_search_url /\ "product-list" \notin last_check.read.atoms

C36_Witness ==
  /\ last_check # NoData
  /\ last_check.read.kind = "html"
  /\ last_check.read.length = 5000
  /\ last_check.read.atoms = {"CAPTCHA"}
  /\ ~last_check.on_search_url
  /\ last_check.result

\* the WebDriver cookies of the latest collection as records of the set
WdRecords ==
  IF raw.wd.ok
  THEN [i \in DOMAIN raw.wd.cookies |-> format_webdriver_cookie(raw.wd.cookies[i])]
  ELSE <<>>

\* C37: the list collect_webdriver_cookies returns starts with the
\* WebDriver cookies, formatted, in the driver's order; after them come
\* script-observed cookies only, each with a name no WebDriver cookie has
\* and no earlier script cookie has, one for every such name of
\* document.cookie; when driver.get_cookies() raised, the list is made of
\* the script-observed cookies alone.
C37_WebDriverTakesPrecedence ==
  (source = "webdriver" /\ cphase \in {"search", "merge"}) =>
    LET js == parse_js_cookies(raw.js)
        out == Collected
        k == Len(WdRecords)
    IN /\ Len(out) >= k
       /\ SubSeq(out, 1, k) = WdRecords
       /\ \A i \in (k + 1)..Len(out) :
            /\ out[i].name \notin Names(WdRecords)
            /\ \A h \in (k + 1)..(i - 1) : out[h].name # out[i].name
            /\ out[i] = js[FirstIdx(js, out[i].name)]
       /\ \A j \in DOMAIN js :
            js[j].name \notin Names(WdRecords) =>
              \E i \in (k + 1)..Len(out) : out[i].name = js[j].name
       /\ ~raw.wd.ok => (Len(out) > 0 <=> Len(js) > 0)

C37_Witness ==
  /\ source = "webdriver"
  /\ cphase = "search"
  /\ raw.wd.ok
  /\ Len(raw.wd.cookies) = 2
  /\ raw.wd.cookies[1].name = "sid"
  /\ raw.wd.cookies[2].name = "PCID"
  /\ raw.js = << <<"sid", "3">> >>
  /\ Len(cookies_data) = 2
  /\ cookies_data[1].value = raw.wd.cookies[1].value

\* get_cookies() raised and the script-observed cookie is what is collected
C37_WitnessDriverFailed ==
  /\ source = "webdriver"
  /\ cphase = "search"
  /\ ~raw.wd.ok
  /\ Len(cookies_data) = 1
  /\ cookies_data[1].name = "sid"

====